---- MODULE Spec2Model ----
(***************************************************************************)
(* Resume analyzer: the Section Extractor (ResumeParser), the Scoring      *)
(* Engine (ATSScoringEngine), the Strength/Weakness Analyzer and the Job   *)
(* Role Matcher, as state machines over one resume text.                   *)
(*                                                                         *)
(* A resume text is a sequence of lines.  A line is a record whose kind    *)
(* fixes how it is written:                                                *)
(*   email      addr                      jane@gmail.com                   *)
(*   phone      raw                       555-123-4567                     *)
(*   skills     heading, n                Skills: Python, JavaScript, ...  *)
(*   words      words                     Python, Java, SQL                *)
(*   heading    title                     Experience                       *)
(*   range      start, end, open          2018 - 2021   /  2018 - present  *)
(*   years_exp  n                         5 years of experience            *)
(*   year       y                         2021                             *)
(* Lines are joined by newlines.  The pieces of a line separated by ", "   *)
(* are its fragments; what each pattern of the source finds in a fragment  *)
(* is tabulated below, and the extractor's operators combine the tables    *)
(* over the lines the way the source combines the matches over the text.   *)
(*                                                                         *)
(* Scores are kept in half points (Scale = 2) because the framework part   *)
(* of the role bonus is a multiple of 1.5.                                  *)
(***************************************************************************)
EXTENDS Integers, Sequences, FiniteSets, TLC

\* Python's None
None == "None"

\* ------------------------------------------------------------------------
\* config.py
\* ------------------------------------------------------------------------
ATS_KEYWORDS ==
  "software_developer" :> [core_skills |-> <<"Python", "Java", "JavaScript", "C++", "SQL", "Git", "API", "Database">>,
       frameworks |-> <<"React", "Node.js", "Spring", "Django", "Flask", "Express">>,
       methodologies |-> <<"Agile", "Scrum", "Testing", "DevOps", "CI/CD">>,
       platforms |-> <<"AWS", "Azure", "Docker", "Linux", "Cloud">>,
       daily_tasks |-> <<"Code development", "Bug fixing", "Code reviews", "System design", "Testing">>,
       tech_stack |-> "Frontend: React/Angular/Vue, Backend: Node.js/Python/Java, Database: MySQL/PostgreSQL, Cloud: AWS/Azure"] @@
  "data_scientist" :> [core_skills |-> <<"Python", "R", "SQL", "Statistics", "Machine Learning", "Deep Learning">>,
       frameworks |-> <<"Pandas", "NumPy", "Scikit-learn", "TensorFlow", "PyTorch", "Matplotlib">>,
       methodologies |-> <<"Data Analysis", "Statistical Modeling", "A/B Testing", "ETL", "Feature Engineering">>,
       platforms |-> <<"Jupyter", "AWS", "Big Data", "Spark", "Hadoop">>,
       daily_tasks |-> <<"Data cleaning", "Model building", "Data visualization", "Statistical analysis", "Reporting">>,
       tech_stack |-> "Languages: Python/R, ML Libraries: Scikit-learn/TensorFlow, Visualization: Matplotlib/Seaborn/Tableau, Cloud: AWS/GCP"] @@
  "ai_engineer" :> [core_skills |-> <<"Machine Learning", "Deep Learning", "Neural Networks", "AI", "Python", "Mathematics">>,
       frameworks |-> <<"TensorFlow", "PyTorch", "Keras", "OpenCV", "Transformers", "CUDA">>,
       methodologies |-> <<"MLOps", "Model Training", "Computer Vision", "NLP", "Research", "Algorithm Design">>,
       platforms |-> <<"GPU Computing", "Cloud ML", "Docker", "Kubernetes", "MLflow">>,
       daily_tasks |-> <<"Model development", "Algorithm optimization", "Research implementation", "Performance tuning">>,
       tech_stack |-> "ML: TensorFlow/PyTorch, CV: OpenCV/YOLO, NLP: Transformers/spaCy, Deployment: Docker/Kubernetes/MLflow"] @@
  "full_stack_developer" :> [core_skills |-> <<"JavaScript", "TypeScript", "HTML", "CSS", "SQL", "Git", "REST API">>,
       frameworks |-> <<"React", "Angular", "Vue.js", "Node.js", "Express", "MongoDB", "PostgreSQL">>,
       methodologies |-> <<"Responsive Design", "Agile", "Testing", "GraphQL", "Microservices">>,
       platforms |-> <<"Docker", "AWS", "Heroku", "Netlify", "Vercel">>,
       daily_tasks |-> <<"Frontend development", "Backend API development", "Database design", "UI/UX implementation">>,
       tech_stack |-> "Frontend: React/Angular + TypeScript, Backend: Node.js/Express, Database: MongoDB/PostgreSQL, Deployment: AWS/Docker"] @@
  "devops_engineer" :> [core_skills |-> <<"Linux", "Bash", "Python", "Git", "Networking", "Security">>,
       frameworks |-> <<"Docker", "Kubernetes", "Jenkins", "Terraform", "Ansible", "Prometheus">>,
       methodologies |-> <<"CI/CD", "Infrastructure as Code", "Monitoring", "Automation", "Containerization">>,
       platforms |-> <<"AWS", "Azure", "GCP", "Linux", "Cloud Computing">>,
       daily_tasks |-> <<"Infrastructure management", "Pipeline automation", "Monitoring setup", "Security implementation">>,
       tech_stack |-> "Cloud: AWS/Azure/GCP, Containers: Docker/Kubernetes, CI/CD: Jenkins/GitLab, IaC: Terraform/Ansible"]

INDUSTRY_INSIGHTS ==
  "software_developer" :> [growth_outlook |-> "High demand with 22% projected growth",
       salary_range |-> "$70k-150k+ depending on experience",
       key_companies |-> <<"Google", "Microsoft", "Amazon", "Meta", "Netflix", "Startups">>,
       trending_skills |-> <<"Cloud Native", "Microservices", "React", "TypeScript", "GraphQL">>] @@
  "data_scientist" :> [growth_outlook |-> "Excellent growth with increasing data-driven decisions",
       salary_range |-> "$80k-180k+ based on specialization",
       key_companies |-> <<"Netflix", "Uber", "Airbnb", "LinkedIn", "Banking sector">>,
       trending_skills |-> <<"MLOps", "Deep Learning", "Big Data", "Cloud ML", "AutoML">>] @@
  "ai_engineer" :> [growth_outlook |-> "Explosive growth with AI revolution",
       salary_range |-> "$90k-200k+ for specialized roles",
       key_companies |-> <<"OpenAI", "Google DeepMind", "Tesla", "NVIDIA", "Research labs">>,
       trending_skills |-> <<"Transformers", "LLMs", "Computer Vision", "Reinforcement Learning", "MLOps">>]

\* the key order of the ATS_KEYWORDS dict (dict iteration is insertion order)
RoleOrder ==
  <<"software_developer", "data_scientist", "ai_engineer", "full_stack_developer", "devops_engineer">>

\* SCORING_CONFIG / the max column of score_breakdown, in points
CategoryMax ==
  [contact_info |-> 15, technical_skills |-> 30, experience_quality |-> 25,
   quantified_achievements |-> 20, content_optimization |-> 10]

CategoryOrder ==
  <<"contact_info", "technical_skills", "experience_quality",
    "quantified_achievements", "content_optimization">>

ACTION_VERBS ==
  <<"developed", "built", "created", "implemented", "designed", "led", "managed",
    "optimized", "engineered", "architected", "delivered", "achieved", "improved",
    "streamlined", "automated", "collaborated", "spearheaded", "coordinated">>

\* ------------------------------------------------------------------------
\* What the patterns and substring tests of the source find in the fragments
\* of the text vocabulary
\* ------------------------------------------------------------------------
\* str.lower() of every catalog keyword
Lower ==
  "Python" :> "python" @@
  "Java" :> "java" @@
  "JavaScript" :> "javascript" @@
  "C++" :> "c++" @@
  "SQL" :> "sql" @@
  "Git" :> "git" @@
  "API" :> "api" @@
  "Database" :> "database" @@
  "React" :> "react" @@
  "Node.js" :> "node.js" @@
  "Spring" :> "spring" @@
  "Django" :> "django" @@
  "Flask" :> "flask" @@
  "Express" :> "express" @@
  "Agile" :> "agile" @@
  "Scrum" :> "scrum" @@
  "Testing" :> "testing" @@
  "DevOps" :> "devops" @@
  "CI/CD" :> "ci/cd" @@
  "AWS" :> "aws" @@
  "Azure" :> "azure" @@
  "Docker" :> "docker" @@
  "Linux" :> "linux" @@
  "Cloud" :> "cloud" @@
  "R" :> "r" @@
  "Statistics" :> "statistics" @@
  "Machine Learning" :> "machine learning" @@
  "Deep Learning" :> "deep learning" @@
  "Pandas" :> "pandas" @@
  "NumPy" :> "numpy" @@
  "Scikit-learn" :> "scikit-learn" @@
  "TensorFlow" :> "tensorflow" @@
  "PyTorch" :> "pytorch" @@
  "Matplotlib" :> "matplotlib" @@
  "Data Analysis" :> "data analysis" @@
  "Statistical Modeling" :> "statistical modeling" @@
  "A/B Testing" :> "a/b testing" @@
  "ETL" :> "etl" @@
  "Feature Engineering" :> "feature engineering" @@
  "Jupyter" :> "jupyter" @@
  "Big Data" :> "big data" @@
  "Spark" :> "spark" @@
  "Hadoop" :> "hadoop" @@
  "Neural Networks" :> "neural networks" @@
  "AI" :> "ai" @@
  "Mathematics" :> "mathematics" @@
  "Keras" :> "keras" @@
  "OpenCV" :> "opencv" @@
  "Transformers" :> "transformers" @@
  "CUDA" :> "cuda" @@
  "MLOps" :> "mlops" @@
  "Model Training" :> "model training" @@
  "Computer Vision" :> "computer vision" @@
  "NLP" :> "nlp" @@
  "Research" :> "research" @@
  "Algorithm Design" :> "algorithm design" @@
  "GPU Computing" :> "gpu computing" @@
  "Cloud ML" :> "cloud ml" @@
  "Kubernetes" :> "kubernetes" @@
  "MLflow" :> "mlflow" @@
  "TypeScript" :> "typescript" @@
  "HTML" :> "html" @@
  "CSS" :> "css" @@
  "REST API" :> "rest api" @@
  "Angular" :> "angular" @@
  "Vue.js" :> "vue.js" @@
  "MongoDB" :> "mongodb" @@
  "PostgreSQL" :> "postgresql" @@
  "Responsive Design" :> "responsive design" @@
  "GraphQL" :> "graphql" @@
  "Microservices" :> "microservices" @@
  "Heroku" :> "heroku" @@
  "Netlify" :> "netlify" @@
  "Vercel" :> "vercel" @@
  "Bash" :> "bash" @@
  "Networking" :> "networking" @@
  "Security" :> "security" @@
  "Jenkins" :> "jenkins" @@
  "Terraform" :> "terraform" @@
  "Ansible" :> "ansible" @@
  "Prometheus" :> "prometheus" @@
  "Infrastructure as Code" :> "infrastructure as code" @@
  "Monitoring" :> "monitoring" @@
  "Automation" :> "automation" @@
  "Containerization" :> "containerization" @@
  "GCP" :> "gcp" @@
  "Cloud Computing" :> "cloud computing"

\* for a text fragment f, the lower-cased keywords k with k in f.lower()
KeywordsIn ==
  "Python" :> {"python"} @@
  "Java" :> {"java"} @@
  "JavaScript" :> {"java", "javascript", "r"} @@
  "C++" :> {"c++"} @@
  "SQL" :> {"sql"} @@
  "Git" :> {"git"} @@
  "API" :> {"api"} @@
  "Database" :> {"database"} @@
  "React" :> {"r", "react"} @@
  "Node.js" :> {"node.js"} @@
  "Spring" :> {"r", "spring"} @@
  "Django" :> {"django"} @@
  "Flask" :> {"flask"} @@
  "Express" :> {"express", "r"} @@
  "Agile" :> {"agile"} @@
  "Scrum" :> {"r", "scrum"} @@
  "Testing" :> {"testing"} @@
  "DevOps" :> {"devops"} @@
  "CI/CD" :> {"ci/cd"} @@
  "AWS" :> {"aws"} @@
  "Azure" :> {"azure", "r"} @@
  "Docker" :> {"docker", "r"} @@
  "Linux" :> {"linux"} @@
  "Cloud" :> {"cloud"} @@
  "R" :> {"r"} @@
  "Statistics" :> {"statistics"} @@
  "Machine Learning" :> {"machine learning", "r"} @@
  "Deep Learning" :> {"deep learning", "r"} @@
  "Pandas" :> {"pandas"} @@
  "NumPy" :> {"numpy"} @@
  "Scikit-learn" :> {"r", "scikit-learn"} @@
  "TensorFlow" :> {"r", "tensorflow"} @@
  "PyTorch" :> {"pytorch", "r"} @@
  "Matplotlib" :> {"matplotlib"} @@
  "Data Analysis" :> {"data analysis"} @@
  "Statistical Modeling" :> {"statistical modeling"} @@
  "A/B Testing" :> {"a/b testing", "testing"} @@
  "ETL" :> {"etl"} @@
  "Feature Engineering" :> {"feature engineering", "r"} @@
  "Jupyter" :> {"jupyter", "r"} @@
  "Big Data" :> {"big data"} @@
  "Spark" :> {"r", "spark"} @@
  "Hadoop" :> {"hadoop"} @@
  "Neural Networks" :> {"neural networks", "r"} @@
  "AI" :> {"ai"} @@
  "Mathematics" :> {"mathematics"} @@
  "Keras" :> {"keras", "r"} @@
  "OpenCV" :> {"opencv"} @@
  "Transformers" :> {"r", "transformers"} @@
  "CUDA" :> {"cuda"} @@
  "MLOps" :> {"mlops"} @@
  "Model Training" :> {"ai", "model training", "r"} @@
  "Computer Vision" :> {"computer vision", "r"} @@
  "NLP" :> {"nlp"} @@
  "Research" :> {"r", "research"} @@
  "Algorithm Design" :> {"algorithm design", "r"} @@
  "GPU Computing" :> {"gpu computing"} @@
  "Cloud ML" :> {"cloud", "cloud ml"} @@
  "Kubernetes" :> {"kubernetes", "r"} @@
  "MLflow" :> {"mlflow"} @@
  "TypeScript" :> {"r", "typescript"} @@
  "HTML" :> {"html"} @@
  "CSS" :> {"css"} @@
  "REST API" :> {"api", "r", "rest api"} @@
  "Angular" :> {"angular", "r"} @@
  "Vue.js" :> {"vue.js"} @@
  "MongoDB" :> {"mongodb"} @@
  "PostgreSQL" :> {"postgresql", "r", "sql"} @@
  "Responsive Design" :> {"r", "responsive design"} @@
  "GraphQL" :> {"graphql", "r"} @@
  "Microservices" :> {"microservices", "r"} @@
  "Heroku" :> {"heroku", "r"} @@
  "Netlify" :> {"etl", "netlify"} @@
  "Vercel" :> {"r", "vercel"} @@
  "Bash" :> {"bash"} @@
  "Networking" :> {"networking", "r"} @@
  "Security" :> {"r", "security"} @@
  "Jenkins" :> {"jenkins"} @@
  "Terraform" :> {"r", "terraform"} @@
  "Ansible" :> {"ansible"} @@
  "Prometheus" :> {"prometheus", "r"} @@
  "Infrastructure as Code" :> {"infrastructure as code", "r"} @@
  "Monitoring" :> {"monitoring", "r"} @@
  "Automation" :> {"automation"} @@
  "Containerization" :> {"ai", "containerization", "r"} @@
  "GCP" :> {"gcp"} @@
  "Cloud Computing" :> {"cloud", "cloud computing"} @@
  "MySQL" :> {"sql"} @@
  "Redis" :> {"r"} @@
  "Programming Languages" :> {"r"} @@
  "Core Competencies" :> {"r"} @@
  "Experience" :> {"r"} @@
  "Summary" :> {"r"} @@
  "Projects" :> {"r"} @@
  "jane@gmail.com" :> {"ai"} @@
  "j.doe@corp.io" :> {"r"} @@
  "Bachelor" :> {"r"} @@
  "University" :> {"r"} @@
  "degree" :> {"r"} @@
  "present" :> {"r"} @@
  "current" :> {"r"} @@
  "years of experience" :> {"r"} @@
  "Senior Developer" :> {"r"} @@
  "Intern" :> {"r"} @@
  "Improved performance by 30%" :> {"r"} @@
  "Built app with 10k+ users" :> {"r"} @@
  "Reached accuracy of 95%" :> {"r"} @@
  "Reduced load time by 40%" :> {"r"} @@
  "Reached 10k+ users and saved $20k" :> {"r"} @@
  "- Built chat server with Python sockets" :> {"python", "r"} @@
  "Project: Inventory tracker using React" :> {"r", "react"} @@
  "1. Developed weather dashboard" :> {"r"} @@
  "* Capstone project for inventory control" :> {"r"} @@
  "- Group project on compiler design" :> {"r"} @@
  "- Team project with REST API backend" :> {"api", "r", "rest api"}

\* for a text fragment f, the skill_mappings keywords k with k in f.lower()
MappingIn ==
  "Python" :> {"python"} @@
  "Java" :> {"java"} @@
  "JavaScript" :> {"java", "javascript"} @@
  "C++" :> {"c++"} @@
  "Git" :> {"git"} @@
  "React" :> {"react"} @@
  "Spring" :> {"spring"} @@
  "Django" :> {"go", "django"} @@
  "Flask" :> {"flask"} @@
  "Express" :> {"express"} @@
  "Agile" :> {"agile"} @@
  "Scrum" :> {"scrum"} @@
  "DevOps" :> {"devops"} @@
  "CI/CD" :> {"ci/cd"} @@
  "AWS" :> {"aws"} @@
  "Azure" :> {"azure"} @@
  "Docker" :> {"docker"} @@
  "Linux" :> {"linux"} @@
  "TensorFlow" :> {"tensorflow"} @@
  "PyTorch" :> {"pytorch"} @@
  "Algorithm Design" :> {"go"} @@
  "Kubernetes" :> {"kubernetes"} @@
  "Angular" :> {"angular"} @@
  "Vue.js" :> {"vue"} @@
  "MongoDB" :> {"go", "mongodb"} @@
  "PostgreSQL" :> {"postgresql"} @@
  "Microservices" :> {"microservices"} @@
  "Jenkins" :> {"jenkins"} @@
  "MySQL" :> {"mysql"} @@
  "Redis" :> {"redis"} @@
  "- Built chat server with Python sockets" :> {"python"} @@
  "Project: Inventory tracker using React" :> {"react"}

\* str.title() of every skill_mappings keyword
Title ==
  "python" :> "Python" @@
  "java" :> "Java" @@
  "javascript" :> "Javascript" @@
  "c++" :> "C++" @@
  "c#" :> "C#" @@
  "ruby" :> "Ruby" @@
  "php" :> "Php" @@
  "go" :> "Go" @@
  "rust" :> "Rust" @@
  "swift" :> "Swift" @@
  "react" :> "React" @@
  "angular" :> "Angular" @@
  "vue" :> "Vue" @@
  "django" :> "Django" @@
  "flask" :> "Flask" @@
  "spring" :> "Spring" @@
  "express" :> "Express" @@
  "tensorflow" :> "Tensorflow" @@
  "pytorch" :> "Pytorch" @@
  "mysql" :> "Mysql" @@
  "postgresql" :> "Postgresql" @@
  "mongodb" :> "Mongodb" @@
  "redis" :> "Redis" @@
  "cassandra" :> "Cassandra" @@
  "elasticsearch" :> "Elasticsearch" @@
  "aws" :> "Aws" @@
  "azure" :> "Azure" @@
  "docker" :> "Docker" @@
  "kubernetes" :> "Kubernetes" @@
  "jenkins" :> "Jenkins" @@
  "git" :> "Git" @@
  "linux" :> "Linux" @@
  "agile" :> "Agile" @@
  "scrum" :> "Scrum" @@
  "devops" :> "Devops" @@
  "ci/cd" :> "Ci/Cd" @@
  "tdd" :> "Tdd" @@
  "microservices" :> "Microservices"

\* for a text fragment, the matches of each of the four education_patterns
EduMatches ==
  "Database" :> <<<<>>, <<"ba">>, <<>>, <<>>>> @@
  "Machine Learning" :> <<<<>>, <<"Ma">>, <<>>, <<>>>> @@
  "Matplotlib" :> <<<<>>, <<"Ma">>, <<>>, <<>>>> @@
  "Mathematics" :> <<<<>>, <<"Ma", "ma">>, <<>>, <<>>>> @@
  "Bash" :> <<<<>>, <<"Ba">>, <<>>, <<>>>> @@
  "Automation" :> <<<<>>, <<"ma">>, <<>>, <<>>>> @@
  "Education" :> <<<<"Education">>, <<>>, <<>>, <<>>>> @@
  "Summary" :> <<<<>>, <<"ma">>, <<>>, <<>>>> @@
  "jane@gmail.com" :> <<<<>>, <<"ma">>, <<>>, <<>>>> @@
  "Bachelor" :> <<<<>>, <<"Bachelor">>, <<>>, <<>>>> @@
  "University" :> <<<<>>, <<>>, <<"University">>, <<>>>> @@
  "degree" :> <<<<>>, <<>>, <<>>, <<"degree">>>> @@
  "Improved performance by 30%" :> <<<<>>, <<"ma">>, <<>>, <<>>>> @@
  "- Team project with REST API backend" :> <<<<>>, <<"ba">>, <<>>, <<>>>>

\* for a text fragment, the number of matches of each concept_mappings pattern
ConceptHits ==
  "API" :> [architecture_design |-> 0, performance_optimization |-> 0, api_integration |-> 1, ai_ml_concepts |-> 0, cloud_concepts |-> 0, testing_practices |-> 0] @@
  "CI/CD" :> [architecture_design |-> 0, performance_optimization |-> 0, api_integration |-> 0, ai_ml_concepts |-> 0, cloud_concepts |-> 0, testing_practices |-> 1] @@
  "AWS" :> [architecture_design |-> 0, performance_optimization |-> 0, api_integration |-> 0, ai_ml_concepts |-> 0, cloud_concepts |-> 1, testing_practices |-> 0] @@
  "Azure" :> [architecture_design |-> 0, performance_optimization |-> 0, api_integration |-> 0, ai_ml_concepts |-> 0, cloud_concepts |-> 1, testing_practices |-> 0] @@
  "Docker" :> [architecture_design |-> 0, performance_optimization |-> 0, api_integration |-> 0, ai_ml_concepts |-> 0, cloud_concepts |-> 1, testing_practices |-> 0] @@
  "Cloud" :> [architecture_design |-> 0, performance_optimization |-> 0, api_integration |-> 0, ai_ml_concepts |-> 0, cloud_concepts |-> 1, testing_practices |-> 0] @@
  "Machine Learning" :> [architecture_design |-> 0, performance_optimization |-> 0, api_integration |-> 0, ai_ml_concepts |-> 1, cloud_concepts |-> 0, testing_practices |-> 0] @@
  "Deep Learning" :> [architecture_design |-> 0, performance_optimization |-> 0, api_integration |-> 0, ai_ml_concepts |-> 1, cloud_concepts |-> 0, testing_practices |-> 0] @@
  "Statistical Modeling" :> [architecture_design |-> 0, performance_optimization |-> 0, api_integration |-> 0, ai_ml_concepts |-> 1, cloud_concepts |-> 0, testing_practices |-> 0] @@
  "Neural Networks" :> [architecture_design |-> 0, performance_optimization |-> 0, api_integration |-> 0, ai_ml_concepts |-> 1, cloud_concepts |-> 0, testing_practices |-> 0] @@
  "Model Training" :> [architecture_design |-> 0, performance_optimization |-> 0, api_integration |-> 0, ai_ml_concepts |-> 1, cloud_concepts |-> 0, testing_practices |-> 0] @@
  "Algorithm Design" :> [architecture_design |-> 1, performance_optimization |-> 0, api_integration |-> 0, ai_ml_concepts |-> 0, cloud_concepts |-> 0, testing_practices |-> 0] @@
  "Cloud ML" :> [architecture_design |-> 0, performance_optimization |-> 0, api_integration |-> 0, ai_ml_concepts |-> 0, cloud_concepts |-> 1, testing_practices |-> 0] @@
  "Kubernetes" :> [architecture_design |-> 0, performance_optimization |-> 0, api_integration |-> 0, ai_ml_concepts |-> 0, cloud_concepts |-> 1, testing_practices |-> 0] @@
  "REST API" :> [architecture_design |-> 0, performance_optimization |-> 0, api_integration |-> 2, ai_ml_concepts |-> 0, cloud_concepts |-> 0, testing_practices |-> 0] @@
  "GraphQL" :> [architecture_design |-> 0, performance_optimization |-> 0, api_integration |-> 1, ai_ml_concepts |-> 0, cloud_concepts |-> 0, testing_practices |-> 0] @@
  "Microservices" :> [architecture_design |-> 0, performance_optimization |-> 0, api_integration |-> 1, ai_ml_concepts |-> 0, cloud_concepts |-> 0, testing_practices |-> 0] @@
  "Containerization" :> [architecture_design |-> 0, performance_optimization |-> 0, api_integration |-> 0, ai_ml_concepts |-> 0, cloud_concepts |-> 1, testing_practices |-> 0] @@
  "Cloud Computing" :> [architecture_design |-> 0, performance_optimization |-> 0, api_integration |-> 0, ai_ml_concepts |-> 0, cloud_concepts |-> 1, testing_practices |-> 0] @@
  "Improved performance by 30%" :> [architecture_design |-> 0, performance_optimization |-> 1, api_integration |-> 0, ai_ml_concepts |-> 0, cloud_concepts |-> 0, testing_practices |-> 0] @@
  "- Team project with REST API backend" :> [architecture_design |-> 0, performance_optimization |-> 0, api_integration |-> 2, ai_ml_concepts |-> 0, cloud_concepts |-> 0, testing_practices |-> 0]

\* for a text fragment, the number of matches of the TECHNICAL_CONCEPTS patterns
TechnicalConceptHits ==
  "API" :> 1 @@
  "Machine Learning" :> 1 @@
  "Deep Learning" :> 1 @@
  "Algorithm Design" :> 1 @@
  "REST API" :> 1 @@
  "Microservices" :> 1 @@
  "Security" :> 1 @@
  "Containerization" :> 1 @@
  "Improved performance by 30%" :> 1 @@
  "- Team project with REST API backend" :> 1

\* for a text fragment f, the ACTION_VERBS v with v in f.lower()
ActionVerbsIn ==
  "Improved performance by 30%" :> {"improved"} @@
  "Led team and saved $20k" :> {"led"} @@
  "Built app with 10k+ users" :> {"built"} @@
  "- Built chat server with Python sockets" :> {"built"} @@
  "1. Developed weather dashboard" :> {"developed"}

\* for a text fragment, the number of matches of the three position_indicators
PositionHits ==
  "Senior Developer" :> 2 @@
  "Team Lead" :> 1 @@
  "Intern" :> 1

\* the text fragments matched by (?i)intern
InternIn ==
  {"Intern"}

\* the text fragments matched by (?i)(lead|manager|supervisor|team\s+lead)
LeadIn ==
  {"Team Lead"}

\* for a text fragment f, the leadership_keywords k with k in f.lower()
LeadershipIn ==
  "Led team and saved $20k" :> {"led"}

\* for a text fragment, the matches of each of the six quantified_achievements patterns
AchievementMatches ==
  "Improved performance by 30%" :> <<<<>>, <<"Improved performance by 30%">>, <<>>, <<>>, <<>>, <<>>>> @@
  "Led team and saved $20k" :> <<<<>>, <<>>, <<"$20k">>, <<>>, <<>>, <<>>>> @@
  "Built app with 10k+ users" :> <<<<>>, <<>>, <<>>, <<"10k+ users">>, <<>>, <<>>>> @@
  "Won 1st place in hackathon" :> <<<<>>, <<>>, <<>>, <<>>, <<"1st place">>, <<>>>> @@
  "Reached accuracy of 95%" :> <<<<>>, <<>>, <<>>, <<>>, <<>>, <<"accuracy of 95%">>>> @@
  "Reduced load time by 40%" :> <<<<>>, <<"Reduced load time by 40%">>, <<>>, <<>>, <<>>, <<>>>> @@
  "Reached 10k+ users and saved $20k" :> <<<<>>, <<>>, <<"$20k">>, <<"10k+ users">>, <<>>, <<>>>>

\* len(f.split()) of the text fragments of more than one word
WordCount ==
  "Machine Learning" :> 2 @@
  "Deep Learning" :> 2 @@
  "Data Analysis" :> 2 @@
  "Statistical Modeling" :> 2 @@
  "A/B Testing" :> 2 @@
  "Feature Engineering" :> 2 @@
  "Big Data" :> 2 @@
  "Neural Networks" :> 2 @@
  "Model Training" :> 2 @@
  "Computer Vision" :> 2 @@
  "Algorithm Design" :> 2 @@
  "GPU Computing" :> 2 @@
  "Cloud ML" :> 2 @@
  "REST API" :> 2 @@
  "Responsive Design" :> 2 @@
  "Infrastructure as Code" :> 3 @@
  "Cloud Computing" :> 2 @@
  "Technical Skills" :> 2 @@
  "Programming Languages" :> 2 @@
  "Tools & Technologies" :> 3 @@
  "Core Competencies" :> 2 @@
  "+1 555 123 4567" :> 4 @@
  "+44 20 79 46" :> 4 @@
  "years of experience" :> 3 @@
  "Senior Developer" :> 2 @@
  "Team Lead" :> 2 @@
  "Improved performance by 30%" :> 4 @@
  "Led team and saved $20k" :> 5 @@
  "Built app with 10k+ users" :> 5 @@
  "Won 1st place in hackathon" :> 5 @@
  "Reached accuracy of 95%" :> 4 @@
  "Reduced load time by 40%" :> 5 @@
  "Reached 10k+ users and saved $20k" :> 6 @@
  "- Built chat server with Python sockets" :> 7 @@
  "- Todo app" :> 3 @@
  "Project: Inventory tracker using React" :> 5 @@
  "1. Developed weather dashboard" :> 4 @@
  "* Capstone project for inventory control" :> 6 @@
  "- Group project on compiler design" :> 6 @@
  "- Team project with REST API backend" :> 7

\* for a text fragment, the number of runs of sentence terminators [.!?]+
TerminatorRuns ==
  "Node.js" :> 1 @@
  "Vue.js" :> 1 @@
  "jane@gmail.com" :> 1 @@
  "j.doe@corp.io" :> 2 @@
  "1. Developed weather dashboard" :> 1

\* the text fragments that, alone on a line, match (?i)^[A-Z][A-Z\s]+$
AlphaOnly ==
  {"Python", "Java", "JavaScript", "SQL", "Git", "API", "Database", "React", "Spring", "Django", "Flask", "Express", "Agile", "Scrum", "Testing", "DevOps", "AWS", "Azure", "Docker", "Linux", "Cloud", "Statistics", "Machine Learning", "Deep Learning", "Pandas", "NumPy", "TensorFlow", "PyTorch", "Matplotlib", "Data Analysis", "Statistical Modeling", "ETL", "Feature Engineering", "Jupyter", "Big Data", "Spark", "Hadoop", "Neural Networks", "AI", "Mathematics", "Keras", "OpenCV", "Transformers", "CUDA", "MLOps", "Model Training", "Computer Vision", "NLP", "Research", "Algorithm Design", "GPU Computing", "Cloud ML", "Kubernetes", "MLflow", "TypeScript", "HTML", "CSS", "REST API", "Angular", "MongoDB", "PostgreSQL", "Responsive Design", "GraphQL", "Microservices", "Heroku", "Netlify", "Vercel", "Bash", "Networking", "Security", "Jenkins", "Terraform", "Ansible", "Prometheus", "Infrastructure as Code", "Monitoring", "Automation", "Containerization", "GCP", "Cloud Computing", "MySQL", "Redis", "Skills", "Technical Skills", "Technologies", "Programming Languages", "Core Competencies", "Experience", "Education", "Summary", "Projects", "Bachelor", "University", "degree", "present", "current", "years of experience", "Senior Developer", "Team Lead", "Intern"}

\* for a text fragment, the matches of the email pattern
EmailMatches ==
  "jane@gmail.com" :> <<"jane@gmail.com">> @@
  "j.doe@corp.io" :> <<"j.doe@corp.io">>

\* for a text fragment, the matches of each of the four phone_patterns
PhoneMatches ==
  "555-123-4567" :> <<<<>>, <<"555-123-4567">>, <<>>, <<"555-123-4567">>>> @@
  "+1 555 123 4567" :> <<<<"+1 555 123 4567">>, <<"555 123 4567">>, <<>>, <<"555 123 4567">>>> @@
  "9876543210" :> <<<<>>, <<"9876543210">>, <<"9876543210">>, <<"9876543210">>>> @@
  "+44 20 79 46" :> <<<<"+44 20 79 46">>, <<>>, <<>>, <<>>>>

\* _clean_phone_number of every phone match (None when fewer than 10 characters remain)
CleanPhone ==
  "555-123-4567" :> "5551234567" @@
  "+1 555 123 4567" :> "+15551234567" @@
  "555 123 4567" :> "5551234567" @@
  "9876543210" :> "9876543210" @@
  "+44 20 79 46" :> None

\* email.count('@') of every email match
AtCount ==
  "jane@gmail.com" :> 1 @@
  "j.doe@corp.io" :> 1

\* the email matches e with '.' in e
HasDot ==
  {"jane@gmail.com", "j.doe@corp.io"}

\* for an email e, the providers d with d in e.lower()
ProviderIn ==
  "jane@gmail.com" :> {"gmail"} @@
  "j.doe@corp.io" :> {}

\* for an achievement match m, the trigger words w with w in m.lower()
TriggersInLower ==
  "Improved performance by 30%" :> {"%", "improve"} @@
  "$20k" :> {} @@
  "10k+ users" :> {"users"} @@
  "1st place" :> {} @@
  "accuracy of 95%" :> {"%", "accuracy"} @@
  "Reduced load time by 40%" :> {"%", "reduce", "time"}

\* for an achievement match m, the financial symbols s with s in m (case kept)
TriggersInRaw ==
  "Improved performance by 30%" :> {} @@
  "$20k" :> {"$"} @@
  "10k+ users" :> {} @@
  "1st place" :> {} @@
  "accuracy of 95%" :> {} @@
  "Reduced load time by 40%" :> {}

\* for an achievement example ex, the indicators i with i in ex.lower()
IndicatorsIn ==
  "Improved performance by 30%" :> {"%", "improved"} @@
  "$20k" :> {"$"} @@
  "10k+ users" :> {} @@
  "1st place" :> {} @@
  "accuracy of 95%" :> {"%"} @@
  "Reduced load time by 40%" :> {"%", "reduced"}

\* for a line of a projects section, the matches of each of the three project_patterns
ProjectMatches ==
  "Projects" :> <<<<>>, <<"s">>, <<>>>> @@
  "- Built chat server with Python sockets" :> <<<<"Built chat server with Python sockets">>, <<>>, <<>>>> @@
  "- Todo app" :> <<<<"Todo app">>, <<>>, <<>>>> @@
  "Project: Inventory tracker using React" :> <<<<>>, <<"Inventory tracker using React">>, <<>>>> @@
  "1. Developed weather dashboard" :> <<<<>>, <<>>, <<"Developed weather dashboard">>>> @@
  "* Capstone project for inventory control" :> <<<<"Capstone project for inventory control">>, <<"for inventory control">>, <<>>>> @@
  "- Group project on compiler design" :> <<<<"Group project on compiler design">>, <<"on compiler design">>, <<>>>> @@
  "- Team project with REST API backend" :> <<<<"Team project with REST API backend">>, <<"with REST API backend">>, <<>>>>

\* len(match.strip()) of every project match
DescriptionLen ==
  "s" :> 1 @@
  "Built chat server with Python sockets" :> 37 @@
  "Todo app" :> 8 @@
  "Inventory tracker using React" :> 29 @@
  "Developed weather dashboard" :> 27 @@
  "Capstone project for inventory control" :> 38 @@
  "for inventory control" :> 21 @@
  "Group project on compiler design" :> 32 @@
  "on compiler design" :> 18 @@
  "Team project with REST API backend" :> 34 @@
  "with REST API backend" :> 21

\* _assess_project_quality of every project match
ProjectQuality ==
  "s" :> 0 @@
  "Built chat server with Python sockets" :> 30 @@
  "Todo app" :> 0 @@
  "Inventory tracker using React" :> 25 @@
  "Developed weather dashboard" :> 5 @@
  "Capstone project for inventory control" :> 0 @@
  "for inventory control" :> 0 @@
  "Group project on compiler design" :> 0 @@
  "on compiler design" :> 0 @@
  "Team project with REST API backend" :> 25 @@
  "with REST API backend" :> 25

\* the text fragments matched by (projects|personal\s+projects|portfolio|academic\s+projects)
ProjectStartIn ==
  {"Projects"}

\* the text fragments matched by (experience|education|skills|awards)
ProjectEndIn ==
  {"Skills", "Technical Skills", "Experience", "Education", "years of experience"}
\* the fragments after which an experience section starts, and those that end it
\* (experience_section_pattern, resume_parser.py)
ExperienceWordIn ==
  {"Experience", "years of experience"}

SectionEndIn ==
  {"Skills", "Technical Skills", "Education", "Projects"}

\* for a skills heading, the skills_patterns (numbered 1..5) that match it
SkillsPatternsOf ==
  "Skills" :> {1} @@
  "Technical Skills" :> {1} @@
  "Technologies" :> {2} @@
  "Programming Languages" :> {3} @@
  "Tools & Technologies" :> {2, 4} @@
  "Core Competencies" :> {5}

\* the skills_patterns whose capture runs on over the following lines
\* until a line that looks like "Heading:"
ContinuingPatterns ==
  {1, 2, 5}

\* ------------------------------------------------------------------------
\* Helpers
\* ------------------------------------------------------------------------
Lookup(T, f, d) == IF f \in DOMAIN T THEN T[f] ELSE d

Max2(a, b) == IF a >= b THEN a ELSE b

Min2(a, b) == IF a <= b THEN a ELSE b

Range(s) == {s[i] : i \in DOMAIN s}

\* s[:n]
Prefix(s, n) == SubSeq(s, 1, Min2(n, Len(s)))

RECURSIVE Flatten(_)
Flatten(ss) == IF ss = <<>> THEN <<>> ELSE Head(ss) \o Flatten(Tail(ss))

RECURSIVE SumSeq(_)
SumSeq(s) == IF s = <<>> THEN 0 ELSE Head(s) + SumSeq(Tail(s))

RECURSIVE UnionSeq(_)
UnionSeq(s) == IF s = <<>> THEN {} ELSE Head(s) \cup UnionSeq(Tail(s))

\* Python truthiness of a string or None
Truthy(x) == x # None /\ x # ""

\* the value None passed where a text is expected, written as a text of
\* one line of no kind a text has
NoneText == <<[kind |-> "NoneType"]>>

\* a call that raised: the exception that left it
Raised(exception) == [raised |-> exception]

\* dict.get(key, default)
Get(d, key, default) == IF key \in DOMAIN d THEN d[key] ELSE default

\* ------------------------------------------------------------------------
\* The text
\* ------------------------------------------------------------------------
\* the tokens of a skills line, in the order written
SkillList ==
  <<"Python", "JavaScript", "React", "MySQL", "Docker", "Agile", "Git", "Django",
    "PostgreSQL", "AWS", "Scrum", "Redis", "Linux", "Java", "Flask", "Azure">>

YearStr ==
  1998 :> "1998" @@ 2018 :> "2018" @@ 2021 :> "2021" @@ 2030 :> "2030"

NumStr ==
  3 :> "3" @@ 12 :> "12"

\* the ", "-separated fragments of a line
Fragments(line) ==
  CASE line.kind = "email"     -> <<line.addr>>
    [] line.kind = "phone"     -> <<line.raw>>
    [] line.kind = "skills"    -> <<line.heading>> \o Prefix(SkillList, line.n)
    [] line.kind = "words"     -> line.words
    [] line.kind = "bullet"    -> <<line.s>>
    [] line.kind = "heading"   -> <<line.title>>
    [] line.kind = "range"     -> IF line.open = "" THEN <<>> ELSE <<line.open>>
    [] line.kind = "years_exp" -> <<"years of experience">>
    [] line.kind = "year"      -> <<>>

\* the fragments of a sequence of lines, in text order
FragmentsOf(lines) == Flatten([i \in 1..Len(lines) |-> Fragments(lines[i])])

\* the ", "-separated pieces of a line, each the sequence of its
\* space-separated parts
Pieces(line) ==
  CASE line.kind = "range" ->
         <<<<YearStr[line.start], "-", IF line.open = "" THEN YearStr[line.end] ELSE line.open>>>>
    [] line.kind = "years_exp" -> <<<<NumStr[line.n], "years of experience">>>>
    [] line.kind = "year" -> <<<<YearStr[line.y]>>>>
    [] line.kind = "skills" -> [i \in 1..Min2(line.n, Len(SkillList)) |-> <<SkillList[i]>>]
    [] OTHER -> [i \in 1..Len(Fragments(line)) |-> <<Fragments(line)[i]>>]

\* len(line.split())
WordsOfLine(line) ==
  CASE line.kind = "range" -> 3
    [] line.kind = "years_exp" -> 4
    [] line.kind = "year" -> 1
    [] OTHER -> SumSeq([i \in 1..Len(Fragments(line)) |-> Lookup(WordCount, Fragments(line)[i], 1)])

\* text.lower(): every keyword test of the consumers is  k in text_lower
Contains(text, keyword) ==
  \E i \in 1..Len(text) : \E f \in Range(Fragments(text[i])) : keyword \in Lookup(KeywordsIn, f, {})


\* the one-letter fragments: alone on a line they are too short for the
\* section header pattern
SingleLetters == {"R"}
\* ------------------------------------------------------------------------
\* resume_parser.py
\* ------------------------------------------------------------------------
\* re.findall of a tabulated pattern family: for each pattern, the matches in text order
FindAll(T, npatterns, lines) ==
  LET fs == FragmentsOf(lines)
      none == [p \in 1..npatterns |-> <<>>]
  IN  Flatten([p \in 1..npatterns |->
         Flatten([i \in 1..Len(fs) |-> Lookup(T, fs[i], none)[p]])])

_validate_email(email) ==
  IF AtCount[email] = 0 \/ email \notin HasDot THEN FALSE
  ELSE IF AtCount[email] # 1 THEN FALSE
  ELSE TRUE

_clean_phone_number(phone) == CleanPhone[phone]

_extract_contact_info(text) ==
  LET fs == FragmentsOf(text)
      emails == Flatten([i \in 1..Len(fs) |-> Lookup(EmailMatches, fs[i], <<>>)])
      valid_emails == SelectSeq(emails, _validate_email)
      phones == FindAll(PhoneMatches, 4, text)
      clean_phones == [i \in 1..Len(phones) |-> _clean_phone_number(phones[i])]
  IN  [email |-> IF emails # <<>> /\ valid_emails # <<>> THEN valid_emails[1] ELSE None,
       email_count |-> IF emails # <<>> THEN Len(valid_emails) ELSE 0,
       phone |-> IF phones # <<>> THEN clean_phones[1] ELSE None,
       phone_count |-> IF phones # <<>> THEN Len(clean_phones) ELSE 0,
       phone_numbers |-> IF phones # <<>> THEN clean_phones ELSE <<>>]

\* a line that stops a running skills capture: (?!\s*[A-Z][^:\n]*:)
HeadingLike(line) == line.kind = "skills"

\* the index of the first heading-like line after line i, or Len + 1
RECURSIVE BlockEnd(_, _)
BlockEnd(text, i) ==
  IF i + 1 > Len(text) THEN Len(text) + 1
  ELSE IF HeadingLike(text[i + 1]) THEN i + 1
  ELSE BlockEnd(text, i + 1)

\* the capture of skills pattern p at the skills line i: the lines captured,
\* each as its pieces
SkillsCapture(text, p, i) ==
  <<Pieces(text[i])>> \o
  (IF p \in ContinuingPatterns
   THEN [j \in 1..(BlockEnd(text, i) - i - 1) |-> Pieces(text[i + j])]
   ELSE <<>>)

\* all_skills_text: for each pattern, the captures in text order
AllSkillsText(text) ==
  Flatten([p \in 1..5 |->
    LET idx == SelectSeq([i \in 1..Len(text) |-> i],
                 LAMBDA i : text[i].kind = "skills"
                            /\ p \in SkillsPatternsOf[text[i].heading])
    IN  [k \in 1..Len(idx) |-> SkillsCapture(text, p, idx[k])]])

\* re.split(r'[,;|•\n]+', ' '.join(all_skills_text)) with the empty pieces
\* dropped: the pieces of every captured line; the last piece of a capture
\* and the first piece of the next one are joined by the ' ' into one token
RECURSIVE SplitSkills(_)
SplitSkills(blocks) ==
  IF blocks = <<>> THEN <<>>
  ELSE LET first == Flatten(Head(blocks))
           rest == SplitSkills(Tail(blocks))
       IN  IF rest = <<>> THEN first
           ELSE SubSeq(first, 1, Len(first) - 1)
                \o <<first[Len(first)] \o Head(rest)>>
                \o Tail(rest)

skill_mappings ==
  [programming_languages |-> <<"python", "java", "javascript", "c++", "c#", "ruby", "php", "go", "rust", "swift">>,
   frameworks_libraries |-> <<"react", "angular", "vue", "django", "flask", "spring", "express", "tensorflow", "pytorch">>,
   databases |-> <<"mysql", "postgresql", "mongodb", "redis", "cassandra", "elasticsearch">>,
   tools_platforms |-> <<"aws", "azure", "docker", "kubernetes", "jenkins", "git", "linux">>,
   methodologies |-> <<"agile", "scrum", "devops", "ci/cd", "tdd", "microservices">>]

\* the atoms of the combined skills text
SkillAtoms(blocks) == Range(Flatten(Flatten(Flatten(blocks))))

_categorize_skills(blocks) ==
  IF blocks = <<>> THEN [c \in {} |-> <<>>]
  ELSE LET found == UNION {Lookup(MappingIn, a, {}) : a \in SkillAtoms(blocks)}
       IN  [c \in DOMAIN skill_mappings |->
              LET hit == SelectSeq(skill_mappings[c], LAMBDA k : k \in found)
              IN  [i \in 1..Len(hit) |-> Title[hit[i]]]]

_extract_skills_analysis(text) ==
  LET combined_skills == AllSkillsText(text)
      individual_skills == SplitSkills(combined_skills)
  IN  [skills_text |-> combined_skills,
       individual_skills |-> IF combined_skills # <<>> THEN Prefix(individual_skills, 20) ELSE <<>>,
       skills_count |-> IF combined_skills # <<>> THEN Len(individual_skills) ELSE 0,
       skill_categories |-> _categorize_skills(combined_skills)]

\* the index of the first line holding an experience heading word, 0 if none
ExperienceStart(text) ==
  LET idx == {i \in 1..Len(text) : Range(Fragments(text[i])) \cap ExperienceWordIn # {}}
  IN  IF idx = {} THEN 0 ELSE CHOOSE i \in idx : \A j \in idx : i <= j

\* the index of the first line after i holding a word that ends the section, Len + 1 if none
ExperienceEnd(text, i) ==
  LET idx == {j \in (i + 1)..Len(text) : Range(Fragments(text[j])) \cap SectionEndIn # {}}
  IN  IF idx = {} THEN Len(text) + 1 ELSE CHOOSE j \in idx : \A k \in idx : j <= k

\* experience_text: group(2) of the section match, or the whole text
ExperienceText(text) ==
  IF ExperienceStart(text) = 0 THEN text
  ELSE SubSeq(text, ExperienceStart(text) + 1, ExperienceEnd(text, ExperienceStart(text)) - 1)

\* re.findall(year_ranges, experience_text.lower())
YearRanges(lines) == SelectSeq(lines, LAMBDA l : l.kind = "range")

\* re.findall(experience_years, full_text)
ExpMentions(lines) ==
  LET ls == SelectSeq(lines, LAMBDA l : l.kind = "years_exp")
  IN  [i \in 1..Len(ls) |-> ls[i].n]

\* re.findall(r'\b(20\d{2})\b', experience_text)
AllYears(lines) ==
  LET Is20xx(y) == 2000 <= y /\ y <= 2099
  IN  Flatten([i \in 1..Len(lines) |->
        CASE lines[i].kind = "range" ->
               (IF Is20xx(lines[i].start) THEN <<lines[i].start>> ELSE <<>>)
               \o (IF lines[i].open = "" /\ Is20xx(lines[i].end) THEN <<lines[i].end>> ELSE <<>>)
          [] lines[i].kind = "year" -> IF Is20xx(lines[i].y) THEN <<lines[i].y>> ELSE <<>>
          [] OTHER -> <<>>])

\* Method 1: the loop over the year ranges
RECURSIVE RangeLoop(_, _, _)
RangeLoop(year_ranges, total_experience, current_year) ==
  IF year_ranges = <<>> THEN total_experience
  ELSE LET start == Head(year_ranges).start
           end == IF Head(year_ranges).open \in {"present", "current"}
                  THEN current_year ELSE Head(year_ranges).end
       IN  RangeLoop(Tail(year_ranges),
                     IF end >= start THEN Max2(total_experience, end - start) ELSE total_experience,
                     current_year)

SeqMax(s) == CHOOSE x \in Range(s) : \A y \in Range(s) : x >= y

SeqMin(s) == CHOOSE x \in Range(s) : \A y \in Range(s) : x <= y

\* A faulty variant of _calculate_total_experience, which reads the last
\* mention and leaves the span of years out: C2_ExperienceIsMaximum does not
\* hold of it.
LastMentionExperience(experience_text, full_text, current_year) ==
  LET exp_mentions == ExpMentions(full_text)
  IN  Max2(RangeLoop(YearRanges(experience_text), 0, current_year),
           IF exp_mentions # <<>> THEN exp_mentions[Len(exp_mentions)] ELSE 0)

_calculate_total_experience(experience_text, full_text, current_year) ==
  LET method1 == RangeLoop(YearRanges(experience_text), 0, current_year)
      exp_mentions == ExpMentions(full_text)
      method2 == IF exp_mentions # <<>> THEN Max2(method1, exp_mentions[1]) ELSE method1
      all_years == AllYears(experience_text)
      years == SelectSeq(all_years, LAMBDA y : 2000 <= y /\ y <= current_year)
  IN  IF Len(all_years) >= 2 /\ years # <<>>
      THEN Max2(method2, SeqMax(years) - SeqMin(years))
      ELSE method2

\* A faulty variant of _classify_experience_level, with six years still
\* "Mid Level": C8_SixYearsSeniorLevel does not hold of it.
MidLevelUpToSix(years) ==
  IF years = 0 THEN "Entry Level / New Graduate"
  ELSE IF years <= 2 THEN "Junior Level"
  ELSE IF years <= 6 THEN "Mid Level"
  ELSE IF years <= 10 THEN "Senior Level"
  ELSE "Expert / Leadership Level"

_classify_experience_level(years) ==
  IF years = 0 THEN "Entry Level / New Graduate"
  ELSE IF years <= 2 THEN "Junior Level"
  ELSE IF years <= 5 THEN "Mid Level"
  ELSE IF years <= 10 THEN "Senior Level"
  ELSE "Expert / Leadership Level"

\* sum(1 for verb in self.action_verbs if verb.lower() in t.lower())
ActionVerbCount(lines) ==
  LET fs == FragmentsOf(lines)
  IN  Cardinality(UNION {Lookup(ActionVerbsIn, fs[i], {}) : i \in 1..Len(fs)})

_analyze_experience_quality(experience_text) ==
  IF experience_text = <<>> THEN 0
  ELSE LET fs == FragmentsOf(experience_text)
           action_verb_count == ActionVerbCount(experience_text)
           achievement_count == Len(FindAll(AchievementMatches, 6, experience_text))
           technical_mentions == SumSeq([i \in 1..Len(fs) |-> Lookup(TechnicalConceptHits, fs[i], 0)])
           leadership_count == Cardinality(UNION {Lookup(LeadershipIn, fs[i], {}) : i \in 1..Len(fs)})
       IN  Min2(100, Min2(20, action_verb_count * 2) + Min2(30, achievement_count * 5)
                     + Min2(25, technical_mentions * 3) + Min2(15, leadership_count * 3))

_extract_experience_analysis(text, current_year) ==
  LET experience_text == ExperienceText(text)
      fs == FragmentsOf(experience_text)
      total_experience == _calculate_total_experience(experience_text, text, current_year)
  IN  [experience_years |-> total_experience,
       experience_level |-> _classify_experience_level(total_experience),
       position_count |-> SumSeq([i \in 1..Len(fs) |-> Lookup(PositionHits, fs[i], 0)]),
       has_internship |-> \E i \in 1..Len(fs) : fs[i] \in InternIn,
       has_leadership |-> \E i \in 1..Len(fs) : fs[i] \in LeadIn,
       experience_quality |-> _analyze_experience_quality(experience_text)]

\* the index of the first line that names a projects section, 0 if none
ProjectStart(text) ==
  LET idx == {i \in 1..Len(text) : Range(Fragments(text[i])) \cap ProjectStartIn # {}}
  IN  IF idx = {} THEN 0 ELSE CHOOSE i \in idx : \A j \in idx : i <= j

\* project_text: group(2) of the section match, the lines after the one
\* that names the section up to the next line that names another section
ProjectText(text) ==
  LET start == ProjectStart(text)
      idx == {j \in (start + 1)..Len(text) : Range(Fragments(text[j])) \cap ProjectEndIn # {}}
      end == IF idx = {} THEN Len(text) + 1 ELSE CHOOSE j \in idx : \A k \in idx : j <= k
  IN  SubSeq(text, start + 1, end - 1)

\* the items of a list without the repetitions, in the order first seen
RECURSIVE FirstSeen(_)
FirstSeen(s) ==
  IF s = <<>> THEN <<>>
  ELSE LET front == FirstSeen(SubSeq(s, 1, Len(s) - 1))
       IN  IF s[Len(s)] \in Range(front) THEN front ELSE Append(front, s[Len(s)])

RECURSIVE Gcd(_, _)
Gcd(a, b) == IF b = 0 THEN a ELSE Gcd(b, a % b)

\* a / b, the quotient of two whole numbers, as the fraction in lowest terms
Quotient(a, b) == <<a \div Gcd(a, b), b \div Gcd(a, b)>>

\* A faulty variant of _extract_project_analysis, which counts the stored
\* descriptions: C22_ProjectCounts does not hold of it.
ProjectCountOfStored(text) ==
  LET matches == IF ProjectStart(text) = 0 THEN <<>>
                 ELSE FindAll(ProjectMatches, 3, ProjectText(text))
      project_descriptions == SelectSeq(matches, LAMBDA match : DescriptionLen[match] > 10)
      project_quality_scores ==
        [i \in 1..Len(project_descriptions) |-> ProjectQuality[project_descriptions[i]]]
      unique_projects == FirstSeen(project_descriptions)
  IN  [project_count |-> Len(Prefix(unique_projects, 5)),
       project_descriptions |-> Prefix(unique_projects, 5),
       average_project_quality |->
         IF project_quality_scores # <<>>
         THEN Quotient(SumSeq(project_quality_scores), Len(project_quality_scores))
         ELSE Quotient(0, 1)]

_extract_project_analysis(text) ==
  LET matches == IF ProjectStart(text) = 0 THEN <<>>
                 ELSE FindAll(ProjectMatches, 3, ProjectText(text))
      project_descriptions == SelectSeq(matches, LAMBDA match : DescriptionLen[match] > 10)
      project_quality_scores ==
        [i \in 1..Len(project_descriptions) |-> ProjectQuality[project_descriptions[i]]]
      unique_projects == FirstSeen(project_descriptions)
  IN  [project_count |-> Len(unique_projects),
       project_descriptions |-> Prefix(unique_projects, 5),
       average_project_quality |->
         IF project_quality_scores # <<>>
         THEN Quotient(SumSeq(project_quality_scores), Len(project_quality_scores))
         ELSE Quotient(0, 1)]

\* list(set(education_keywords)): the distinct matches in the iteration
\* order of the process's string hashing
SetOrder(keywords, order) == SelectSeq(order, LAMBDA k : k \in Range(keywords))

_extract_education_info(text, order) ==
  LET education_keywords == FindAll(EduMatches, 4, text)
      education_mentions == Len(education_keywords)
  IN  [has_education |-> education_mentions > 0,
       education_mention_count |-> education_mentions,
       education_keywords |-> Prefix(SetOrder(education_keywords, order), 10)]

PerformanceWords == {"%", "percent", "increase", "improve", "reduce"}

FinancialSymbols == {"$", "revenue", "cost", "profit", "budget"}

ScaleWords == {"users", "customers", "downloads", "views"}

TimeWords == {"time", "speed", "faster", "efficiency"}

QualityWords == {"accuracy", "precision", "quality", "score"}

\* A faulty variant of AchievementCategory, which tests the time and the
\* quality words first: C27_ThreeCategoriesAtMost does not hold of it.
AchievementCategoryTimeFirst(match) ==
  IF TriggersInLower[match] \cap TimeWords # {} THEN "time_improvements"
  ELSE IF TriggersInLower[match] \cap QualityWords # {} THEN "quality_metrics"
  ELSE IF TriggersInLower[match] \cap PerformanceWords # {} THEN "performance_metrics"
  ELSE IF TriggersInRaw[match] \cap FinancialSymbols # {} THEN "financial_impact"
  ELSE IF TriggersInLower[match] \cap ScaleWords # {} THEN "scale_metrics"
  ELSE None

\* the if / elif chain that puts an achievement match in at most one category
AchievementCategory(match) ==
  IF TriggersInLower[match] \cap PerformanceWords # {} THEN "performance_metrics"
  ELSE IF TriggersInRaw[match] \cap FinancialSymbols # {} THEN "financial_impact"
  ELSE IF TriggersInLower[match] \cap ScaleWords # {} THEN "scale_metrics"
  ELSE IF TriggersInLower[match] \cap TimeWords # {} THEN "time_improvements"
  ELSE IF TriggersInLower[match] \cap QualityWords # {} THEN "quality_metrics"
  ELSE None

AchievementCategoryNames ==
  {"performance_metrics", "financial_impact", "scale_metrics", "time_improvements", "quality_metrics"}

\* A faulty variant of _analyze_quantified_achievements, whose diversity is
\* the number of matches: C11_DiversityCountsCategories does not hold of it.
DiversityCountsMatches(text) ==
  LET all_achievements == FindAll(AchievementMatches, 6, text)
      achievement_categories ==
        [c \in AchievementCategoryNames |->
           SelectSeq(all_achievements, LAMBDA m : AchievementCategory(m) = c)]
  IN  [quantified_achievements |-> Len(all_achievements),
       achievement_examples |-> Prefix(all_achievements, 8),
       achievement_categories |-> achievement_categories,
       achievement_diversity |-> Len(all_achievements)]

_analyze_quantified_achievements(text) ==
  LET all_achievements == FindAll(AchievementMatches, 6, text)
      achievement_categories ==
        [c \in AchievementCategoryNames |->
           SelectSeq(all_achievements, LAMBDA m : AchievementCategory(m) = c)]
  IN  [quantified_achievements |-> Len(all_achievements),
       achievement_examples |-> Prefix(all_achievements, 8),
       achievement_categories |-> achievement_categories,
       achievement_diversity |->
         Cardinality({c \in AchievementCategoryNames : achievement_categories[c] # <<>>})]

_classify_technical_level(technical_mentions) ==
  IF technical_mentions >= 15 THEN "Advanced Technical Depth"
  ELSE IF technical_mentions >= 8 THEN "Good Technical Understanding"
  ELSE IF technical_mentions >= 3 THEN "Basic Technical Awareness"
  ELSE "Limited Technical Depth"

ConceptCategories ==
  <<"architecture_design", "performance_optimization", "api_integration",
    "ai_ml_concepts", "cloud_concepts", "testing_practices">>

_analyze_technical_depth(text) ==
  LET fs == FragmentsOf(text)
      technical_categories ==
        [c \in Range(ConceptCategories) |->
           SumSeq([i \in 1..Len(fs) |->
             IF fs[i] \in DOMAIN ConceptHits THEN ConceptHits[fs[i]][c] ELSE 0])]
      total_technical_mentions ==
        SumSeq([i \in 1..Len(ConceptCategories) |-> technical_categories[ConceptCategories[i]]])
  IN  [technical_depth_score |-> total_technical_mentions,
       technical_categories |-> technical_categories,
       technical_sophistication |-> _classify_technical_level(total_technical_mentions)]

\* a line of letters and blanks only
LettersOnly(line) ==
  /\ line.kind \in {"heading", "words"}
  /\ Len(Fragments(line)) = 1
  /\ Fragments(line)[1] \in AlphaOnly \cup SingleLetters

\* len(re.findall(r'(?i)^[A-Z][A-Z\s]+$', text, re.MULTILINE)): \s matches
\* the newline, so a run of consecutive letters-only lines is one match; a
\* run that is one single letter is too short to match
SectionHeaders(text) ==
  Cardinality({i \in 1..Len(text) :
     /\ LettersOnly(text[i])
     /\ (i = 1 \/ ~LettersOnly(text[i - 1]))
     /\ (Fragments(text[i])[1] \in AlphaOnly
         \/ (i < Len(text) /\ LettersOnly(text[i + 1])))})

_analyze_content_quality(text) ==
  LET fs == FragmentsOf(text)
      section_headers == SectionHeaders(text)
  IN  [word_count |-> SumSeq([i \in 1..Len(text) |-> WordsOfLine(text[i])]),
       sentence_count |-> 1 + SumSeq([i \in 1..Len(fs) |-> Lookup(TerminatorRuns, fs[i], 0)]),
       action_verb_count |-> ActionVerbCount(text),
       section_headers |-> section_headers,
       structure_score |-> Min2(10, section_headers * 2)]

\* the number of TRUE entries, sum(...) over a list of bools
CountTrue(bs) == Cardinality({i \in 1..Len(bs) : bs[i]})

\* the three percentages are (n / 4) * 100: whole numbers 0, 25, 50, 75, 100
_generate_analysis_summary(sections) ==
  LET completeness == CountTrue(<<Truthy(sections.email), sections.skills_text # <<>>,
                                  sections.experience_years # 0, sections.project_count # 0>>)
      technical_indicators == <<sections.skills_count >= 8, sections.technical_depth_score >= 5,
                                sections.project_count >= 2, sections.quantified_achievements >= 1>>
      maturity_indicators == <<sections.experience_years >= 1, sections.action_verb_count >= 5,
                               sections.has_education, sections.quantified_achievements >= 2>>
  IN  [completeness_score |-> completeness * 25,
       technical_readiness |-> CountTrue(technical_indicators) * 25,
       professional_maturity |-> CountTrue(maturity_indicators) * 25,
       key_strengths |-> <<>>,
       critical_gaps |-> <<>>]

\* dict.update: the keys of b added to (or replacing those of) a
Update(a, b) ==
  [k \in DOMAIN a \cup DOMAIN b |-> IF k \in DOMAIN b THEN b[k] ELSE a[k]]

\* the empty dict
EmptyDict == [k \in {} |-> None]

\* the sections of a text that is neither None nor empty
ExtractSections(text, current_year, order) ==
  LET sections ==
        Update(Update(Update(Update(Update(Update(Update(
          _extract_contact_info(text),
          _extract_skills_analysis(text)),
          _extract_experience_analysis(text, current_year)),
          _extract_project_analysis(text)),
          _extract_education_info(text, order)),
          _analyze_quantified_achievements(text)),
          _analyze_technical_depth(text)),
          _analyze_content_quality(text))
  IN  Update(sections, [analysis_summary |-> _generate_analysis_summary(sections)])

\* A faulty variant of extract_comprehensive_sections, which tests the text
\* against the empty string only: C12_NoTextNoFacts does not hold of it.
ExtractTestingEmptyOnly(text, current_year, order) ==
  IF text = <<>> THEN EmptyDict
  ELSE IF text = NoneText THEN Raised("AttributeError")
  ELSE ExtractSections(text, current_year, order)

\* if not text: return {}
extract_comprehensive_sections(text, current_year, order) ==
  IF text = NoneText \/ text = <<>> THEN EmptyDict
  ELSE ExtractSections(text, current_year, order)

\* ------------------------------------------------------------------------
\* scoring_engine.py
\* Scores are in half points: Pts(8) is 8 points.  The marks that open a
\* detail line are written [ok], [x], [!] and [>].
\* ------------------------------------------------------------------------
Pts(n) == 2 * n

\* ', '.join(items)
RECURSIVE Join(_)
Join(items) ==
  IF items = <<>> THEN ""
  ELSE IF Len(items) = 1 THEN items[1]
  ELSE items[1] \o ", " \o Join(Tail(items))

\* target_role.lower().replace(' ', '_')
RoleKey ==
  "" :> "" @@
  "software_developer" :> "software_developer" @@
  "data_scientist" :> "data_scientist" @@
  "ai_engineer" :> "ai_engineer" @@
  "full_stack_developer" :> "full_stack_developer" @@
  "devops_engineer" :> "devops_engineer" @@
  "Software Developer" :> "software_developer" @@
  "Data Scientist" :> "data_scientist" @@
  "AI Engineer" :> "ai_engineer" @@
  "Astronaut" :> "astronaut"

\* [k for k in keywords if k.lower() in text_lower]
Matched(keywords, text) == SelectSeq(keywords, LAMBDA k : Contains(text, Lower[k]))

\* [k for k in keywords if k.lower() not in text_lower]
Missing(keywords, text) == SelectSeq(keywords, LAMBDA k : ~Contains(text, Lower[k]))

\* [k for k in keywords if k in text_lower], the keywords already lower case
MatchedLower(keywords, text) == SelectSeq(keywords, LAMBDA k : Contains(text, k))

_score_contact_information(sections) ==
  LET email == Get(sections, "email", None)
      phone == Get(sections, "phone", None)
  IN  [score |-> (IF Truthy(email) THEN Pts(8) ELSE 0) + (IF Truthy(phone) THEN Pts(7) ELSE 0),
       details |->
         (IF Truthy(email)
          THEN <<"[ok] Professional email address provided">>
               \o (IF Lookup(ProviderIn, email, {}) # {}
                   THEN <<"[ok] Uses common email provider (professional)">> ELSE <<>>)
          ELSE <<"[x] CRITICAL: Missing email address - will result in automatic rejection">>)
         \o (IF Truthy(phone)
             THEN <<"[ok] Phone number provided for direct contact">>
                  \o (IF Get(sections, "phone_count", 0) > 1
                      THEN <<"[ok] Multiple contact methods available">> ELSE <<>>)
             ELSE <<"[x] Missing phone number - reduces recruiter contact options">>)
         \o (IF Truthy(email) /\ Truthy(phone)
             THEN <<"[>] Complete contact information enables easy recruiter outreach">>
             ELSE <<>>)]

\* the base technical skills assessment: presence of a skills section and
\* the skills count tier
BaseScore(sections) ==
  LET skills_count == Get(sections, "skills_count", 0)
  IN  IF Get(sections, "skills_text", <<>>) # <<>>
      THEN [score |-> Pts(5) + (IF skills_count >= 12 THEN Pts(5)
                                ELSE IF skills_count >= 6 THEN Pts(3)
                                ELSE IF skills_count > 0 THEN Pts(1) ELSE 0),
            details |-> <<"[ok] Dedicated skills section found">>
              \o (IF skills_count >= 12
                  THEN <<"[ok] Comprehensive skill set (" \o ToString(skills_count) \o " skills listed)">>
                  ELSE IF skills_count >= 6
                  THEN <<"[ok] Good skill variety (" \o ToString(skills_count) \o " skills listed)">>
                  ELSE IF skills_count > 0
                  THEN <<"[!] Limited skills listed (" \o ToString(skills_count)
                         \o " skills) - expand to show full expertise">>
                  ELSE <<>>)]
      ELSE [score |-> 0,
            details |-> <<"[x] No dedicated skills section - critical for ATS parsing">>]

\* A faulty variant of CoreScore, three points a skill: C10_CoreSkillScore
\* does not hold of it.
TripleCoreScore(matched_core) == Min2(Pts(15), Pts(Len(matched_core) * 3))

\* core_score = min(15, len(matched_core) * 2)
CoreScore(matched_core) == Min2(Pts(15), Pts(Len(matched_core) * 2))

\* framework_score = min(8, len(matched_frameworks) * 1.5)
FrameworkScore(matched_frameworks) == Min2(Pts(8), Len(matched_frameworks) * 3)

\* method_score = min(5, len(matched_methodologies) * 1)
MethodScore(matched_methodologies) == Min2(Pts(5), Pts(Len(matched_methodologies)))

_calculate_role_specific_score(text, role_data, target) ==
  LET matched_core == Matched(role_data.core_skills, text)
      matched_frameworks == Matched(role_data.frameworks, text)
      matched_methodologies == Matched(role_data.methodologies, text)
      missing_core == Missing(Prefix(role_data.core_skills, 6), text)
  IN  [score |-> CoreScore(matched_core) + FrameworkScore(matched_frameworks)
                 + MethodScore(matched_methodologies),
       details |->
         (IF matched_core # <<>>
          THEN <<"[ok] " \o target \o " core skills: " \o Join(Prefix(matched_core, 6))>> ELSE <<>>)
         \o (IF matched_frameworks # <<>>
             THEN <<"[ok] Relevant frameworks: " \o Join(Prefix(matched_frameworks, 4))>> ELSE <<>>)
         \o (IF matched_methodologies # <<>>
             THEN <<"[ok] Industry methodologies: " \o Join(Prefix(matched_methodologies, 3))>> ELSE <<>>)
         \o (IF missing_core # <<>>
             THEN <<"[x] Missing " \o target \o " skills: " \o Join(Prefix(missing_core, 4))>> ELSE <<>>)]

programming_skills == <<"python", "java", "javascript", "c++", "sql", "html", "css">>

tools_platforms == <<"git", "docker", "aws", "linux", "api", "database", "cloud">>

_calculate_general_tech_score(text) ==
  LET matched_programming == MatchedLower(programming_skills, text)
      matched_tools == MatchedLower(tools_platforms, text)
  IN  [score |-> (IF Len(matched_programming) >= 4 THEN Pts(12)
                  ELSE IF Len(matched_programming) >= 2 THEN Pts(8) ELSE 0)
                 + (IF Len(matched_tools) >= 3 THEN Pts(8)
                    ELSE IF Len(matched_tools) >= 1 THEN Pts(4) ELSE 0),
       details |->
         (IF Len(matched_programming) >= 4
          THEN <<"[ok] Strong programming foundation: " \o Join(Prefix(matched_programming, 5))>>
          ELSE IF Len(matched_programming) >= 2
          THEN <<"[ok] Basic programming skills: " \o Join(matched_programming)>>
          ELSE <<>>)
         \o (IF Len(matched_tools) >= 3
             THEN <<"[ok] Modern development tools: " \o Join(Prefix(matched_tools, 4))>>
             ELSE IF Len(matched_tools) >= 1
             THEN <<"[ok] Development tools: " \o Join(matched_tools)>>
             ELSE <<>>)]

_assess_skill_diversity(skill_categories) ==
  LET non_empty_categories == {c \in DOMAIN skill_categories : skill_categories[c] # <<>>}
      n == Cardinality(non_empty_categories)
  IN  IF DOMAIN skill_categories = {} THEN [score |-> 0, details |-> <<>>]
      ELSE IF n >= 4
      THEN [score |-> Pts(3),
            details |-> <<"[ok] Excellent skill diversity across multiple technical areas">>]
      ELSE IF n >= 3
      THEN [score |-> Pts(2), details |-> <<"[ok] Good skill diversity across technical areas">>]
      ELSE IF n >= 2
      THEN [score |-> Pts(1), details |-> <<"[ok] Moderate skill diversity">>]
      ELSE [score |-> 0, details |-> <<>>]

\* A faulty variant of RoleBonus, which adds the general score to the role
\* specific one: C23_OneBonus does not hold of it.
RoleBonusWithGeneral(text, target, keywords) ==
  LET general == _calculate_general_tech_score(text)
  IN  IF Truthy(target) /\ RoleKey[target] \in DOMAIN keywords
      THEN LET specific == _calculate_role_specific_score(text, keywords[RoleKey[target]], target)
           IN  [score |-> specific.score + general.score,
                details |-> specific.details \o general.details]
      ELSE general

\* the role bonus: the role specific score when target_role names a role of
\* the catalog, the general score otherwise
RoleBonus(text, target, keywords) ==
  IF Truthy(target) /\ RoleKey[target] \in DOMAIN keywords
  THEN _calculate_role_specific_score(text, keywords[RoleKey[target]], target)
  ELSE _calculate_general_tech_score(text)

\* A faulty variant of _score_technical_skills, the sum without the cap of
\* 30 points: C1_ScoresWithinMax does not hold of it.
UncappedTechnicalSkills(text, sections, target, keywords) ==
  LET base == BaseScore(sections)
      role_bonus == RoleBonus(text, target, keywords)
      category_bonus == _assess_skill_diversity(Get(sections, "skill_categories", EmptyDict))
  IN  [score |-> base.score + role_bonus.score + category_bonus.score,
       details |-> base.details \o role_bonus.details \o category_bonus.details]

_score_technical_skills(text, sections, target, keywords) ==
  LET base == BaseScore(sections)
      role_bonus == RoleBonus(text, target, keywords)
      category_bonus == _assess_skill_diversity(Get(sections, "skill_categories", EmptyDict))
  IN  [score |-> Min2(base.score + role_bonus.score + category_bonus.score, Pts(30)),
       details |-> base.details \o role_bonus.details \o category_bonus.details]

\* A faulty variant of _score_experience_quality, which awards the internship
\* points whatever the years of experience: C26_ExperienceBelowClamp does not
\* hold of it.
InternshipAtAnyExperience(sections) ==
  LET experience_years == Get(sections, "experience_years", 0)
      position_count == Get(sections, "position_count", 0)
      experience_quality == Get(sections, "experience_quality", 0)
      years ==
        IF experience_years >= 5
        THEN [score |-> Pts(10),
              details |-> <<"[ok] Extensive experience (" \o ToString(experience_years)
                            \o " years) - senior-level candidate">>]
        ELSE IF experience_years >= 3
        THEN [score |-> Pts(8),
              details |-> <<"[ok] Solid experience (" \o ToString(experience_years)
                            \o " years) - mid-level candidate">>]
        ELSE IF experience_years >= 1
        THEN [score |-> Pts(5),
              details |-> <<"[ok] Professional experience (" \o ToString(experience_years)
                            \o " years) - junior-level candidate">>]
        ELSE IF experience_years > 0
        THEN [score |-> Pts(2),
              details |-> <<"[!] Limited experience (" \o ToString(experience_years)
                            \o " years) - entry-level positions">>]
        ELSE [score |-> 0,
              details |-> <<"[x] No clear work experience timeline - add internships, projects, or part-time work">>]
      positions ==
        IF position_count >= 3
        THEN [score |-> Pts(4),
              details |-> <<"[ok] Diverse work history (" \o ToString(position_count)
                            \o " positions) shows adaptability">>]
        ELSE IF position_count >= 2
        THEN [score |-> Pts(2),
              details |-> <<"[ok] Multiple positions (" \o ToString(position_count)
                            \o ") show career progression">>]
        ELSE IF position_count = 1
        THEN [score |-> Pts(1),
              details |-> <<"[!] Single position listed - consider adding internships or projects">>]
        ELSE [score |-> 0, details |-> <<>>]
      quality ==
        IF experience_quality >= 70
        THEN [score |-> Pts(6),
              details |-> <<"[ok] High-quality experience descriptions with quantified achievements">>]
        ELSE IF experience_quality >= 50
        THEN [score |-> Pts(4),
              details |-> <<"[ok] Good experience descriptions - consider adding more metrics">>]
        ELSE IF experience_quality >= 30
        THEN [score |-> Pts(2),
              details |-> <<"[!] Basic experience descriptions - add technical details and achievements">>]
        ELSE [score |-> 0,
              details |-> <<"[x] Poor experience descriptions - rewrite with action verbs and quantified results">>]
      leadership ==
        IF Get(sections, "has_leadership", FALSE)
        THEN [score |-> Pts(3),
              details |-> <<"[ok] Leadership experience demonstrated - valuable for senior roles">>]
        ELSE [score |-> 0, details |-> <<>>]
      internship ==
        IF Get(sections, "has_internship", FALSE)
        THEN [score |-> Pts(2), details |-> <<"[ok] Internship experience shows industry exposure">>]
        ELSE [score |-> 0, details |-> <<>>]
  IN  [score |-> Min2(years.score + positions.score + quality.score + leadership.score
                      + internship.score, Pts(25)),
       details |-> years.details \o positions.details \o quality.details
                   \o leadership.details \o internship.details]

_score_experience_quality(sections) ==
  LET experience_years == Get(sections, "experience_years", 0)
      position_count == Get(sections, "position_count", 0)
      experience_quality == Get(sections, "experience_quality", 0)
      years ==
        IF experience_years >= 5
        THEN [score |-> Pts(10),
              details |-> <<"[ok] Extensive experience (" \o ToString(experience_years)
                            \o " years) - senior-level candidate">>]
        ELSE IF experience_years >= 3
        THEN [score |-> Pts(8),
              details |-> <<"[ok] Solid experience (" \o ToString(experience_years)
                            \o " years) - mid-level candidate">>]
        ELSE IF experience_years >= 1
        THEN [score |-> Pts(5),
              details |-> <<"[ok] Professional experience (" \o ToString(experience_years)
                            \o " years) - junior-level candidate">>]
        ELSE IF experience_years > 0
        THEN [score |-> Pts(2),
              details |-> <<"[!] Limited experience (" \o ToString(experience_years)
                            \o " years) - entry-level positions">>]
        ELSE [score |-> 0,
              details |-> <<"[x] No clear work experience timeline - add internships, projects, or part-time work">>]
      positions ==
        IF position_count >= 3
        THEN [score |-> Pts(4),
              details |-> <<"[ok] Diverse work history (" \o ToString(position_count)
                            \o " positions) shows adaptability">>]
        ELSE IF position_count >= 2
        THEN [score |-> Pts(2),
              details |-> <<"[ok] Multiple positions (" \o ToString(position_count)
                            \o ") show career progression">>]
        ELSE IF position_count = 1
        THEN [score |-> Pts(1),
              details |-> <<"[!] Single position listed - consider adding internships or projects">>]
        ELSE [score |-> 0, details |-> <<>>]
      quality ==
        IF experience_quality >= 70
        THEN [score |-> Pts(6),
              details |-> <<"[ok] High-quality experience descriptions with quantified achievements">>]
        ELSE IF experience_quality >= 50
        THEN [score |-> Pts(4),
              details |-> <<"[ok] Good experience descriptions - consider adding more metrics">>]
        ELSE IF experience_quality >= 30
        THEN [score |-> Pts(2),
              details |-> <<"[!] Basic experience descriptions - add technical details and achievements">>]
        ELSE [score |-> 0,
              details |-> <<"[x] Poor experience descriptions - rewrite with action verbs and quantified results">>]
      leadership ==
        IF Get(sections, "has_leadership", FALSE)
        THEN [score |-> Pts(3),
              details |-> <<"[ok] Leadership experience demonstrated - valuable for senior roles">>]
        ELSE [score |-> 0, details |-> <<>>]
      internship ==
        IF experience_years <= 2 /\ Get(sections, "has_internship", FALSE)
        THEN [score |-> Pts(2), details |-> <<"[ok] Internship experience shows industry exposure">>]
        ELSE [score |-> 0, details |-> <<>>]
  IN  [score |-> Min2(years.score + positions.score + quality.score + leadership.score
                      + internship.score, Pts(25)),
       details |-> years.details \o positions.details \o quality.details
                   \o leadership.details \o internship.details]

_score_quantified_achievements(sections) ==
  LET achievement_count == Get(sections, "quantified_achievements", 0)
      achievement_examples == Get(sections, "achievement_examples", <<>>)
      achievement_diversity == Get(sections, "achievement_diversity", 0)
      base ==
        IF achievement_count >= 5
        THEN [score |-> Pts(15),
              details |-> <<"[ok] Excellent quantified achievements (" \o ToString(achievement_count)
                            \o " metrics) - shows strong business impact">>]
        ELSE IF achievement_count >= 3
        THEN [score |-> Pts(10),
              details |-> <<"[ok] Good quantified achievements (" \o ToString(achievement_count)
                            \o " metrics) - demonstrates measurable value">>]
        ELSE IF achievement_count >= 1
        THEN [score |-> Pts(5),
              details |-> <<"[!] Some quantified achievements (" \o ToString(achievement_count)
                            \o " metrics) - add more specific numbers">>]
        ELSE [score |-> 0,
              details |-> <<"[x] No quantified achievements - critical weakness, add percentages, dollar amounts, time savings">>]
      diversity ==
        IF achievement_diversity >= 3
        THEN [score |-> Pts(3),
              details |-> <<"[ok] Diverse achievement types (performance, financial, scale) show well-rounded impact">>]
        ELSE IF achievement_diversity >= 2
        THEN [score |-> Pts(2),
              details |-> <<"[ok] Multiple achievement categories demonstrate varied contributions">>]
        ELSE [score |-> 0, details |-> <<>>]
      high_quality_achievements ==
        SelectSeq(Prefix(achievement_examples, 3), LAMBDA ex : Lookup(IndicatorsIn, ex, {}) # {})
      examples ==
        IF achievement_examples # <<>> /\ Len(high_quality_achievements) >= 2
        THEN [score |-> Pts(2),
              details |-> <<"[ok] High-quality achievement examples with specific metrics">>]
        ELSE [score |-> 0, details |-> <<>>]
  IN  [score |-> Min2(base.score + diversity.score + examples.score, Pts(20)),
       details |-> base.details \o diversity.details \o examples.details]

\* A faulty variant of _score_content_optimization, which awards the point
\* for education without a detail: C25_PointsHaveDetails does not hold of it.
ContentScoreSilentEducation(sections) ==
  LET word_count == Get(sections, "word_count", 0)
      action_verb_count == Get(sections, "action_verb_count", 0)
      section_headers == Get(sections, "section_headers", 0)
      len ==
        IF 400 <= word_count /\ word_count <= 800
        THEN [score |-> Pts(4),
              details |-> <<"[ok] Optimal resume length (" \o ToString(word_count)
                            \o " words) for ATS processing">>]
        ELSE IF 300 <= word_count /\ word_count <= 1000
        THEN [score |-> Pts(3),
              details |-> <<"[ok] Good resume length (" \o ToString(word_count) \o " words)">>]
        ELSE IF word_count < 300
        THEN [score |-> 0,
              details |-> <<"[x] Resume too short (" \o ToString(word_count)
                            \o " words) - expand project and experience descriptions">>]
        ELSE [score |-> 0,
              details |-> <<"[!] Resume quite long (" \o ToString(word_count)
                            \o " words) - consider condensing for better ATS performance">>]
      verbs ==
        IF action_verb_count >= 10
        THEN [score |-> Pts(3),
              details |-> <<"[ok] Excellent use of action verbs (" \o ToString(action_verb_count)
                            \o ") - shows proactive approach">>]
        ELSE IF action_verb_count >= 6
        THEN [score |-> Pts(2),
              details |-> <<"[ok] Good action verb usage (" \o ToString(action_verb_count)
                            \o ") - demonstrates initiative">>]
        ELSE IF action_verb_count >= 3
        THEN [score |-> Pts(1),
              details |-> <<"[!] Limited action verbs (" \o ToString(action_verb_count)
                            \o ") - use more dynamic language">>]
        ELSE [score |-> 0,
              details |-> <<"[x] Few action verbs - rewrite with words like 'developed', 'led', 'implemented'">>]
      structure ==
        IF section_headers >= 4
        THEN [score |-> Pts(2), details |-> <<"[ok] Well-structured with clear section headers">>]
        ELSE IF section_headers >= 2
        THEN [score |-> Pts(1), details |-> <<"[ok] Basic structure with section headers">>]
        ELSE [score |-> 0, details |-> <<>>]
      education ==
        IF Get(sections, "has_education", FALSE)
        THEN [score |-> Pts(1), details |-> <<>>]
        ELSE [score |-> 0, details |-> <<>>]
  IN  [score |-> Min2(len.score + verbs.score + structure.score + education.score, Pts(10)),
       details |-> len.details \o verbs.details \o structure.details \o education.details]

_score_content_optimization(sections) ==
  LET word_count == Get(sections, "word_count", 0)
      action_verb_count == Get(sections, "action_verb_count", 0)
      section_headers == Get(sections, "section_headers", 0)
      len ==
        IF 400 <= word_count /\ word_count <= 800
        THEN [score |-> Pts(4),
              details |-> <<"[ok] Optimal resume length (" \o ToString(word_count)
                            \o " words) for ATS processing">>]
        ELSE IF 300 <= word_count /\ word_count <= 1000
        THEN [score |-> Pts(3),
              details |-> <<"[ok] Good resume length (" \o ToString(word_count) \o " words)">>]
        ELSE IF word_count < 300
        THEN [score |-> 0,
              details |-> <<"[x] Resume too short (" \o ToString(word_count)
                            \o " words) - expand project and experience descriptions">>]
        ELSE [score |-> 0,
              details |-> <<"[!] Resume quite long (" \o ToString(word_count)
                            \o " words) - consider condensing for better ATS performance">>]
      verbs ==
        IF action_verb_count >= 10
        THEN [score |-> Pts(3),
              details |-> <<"[ok] Excellent use of action verbs (" \o ToString(action_verb_count)
                            \o ") - shows proactive approach">>]
        ELSE IF action_verb_count >= 6
        THEN [score |-> Pts(2),
              details |-> <<"[ok] Good action verb usage (" \o ToString(action_verb_count)
                            \o ") - demonstrates initiative">>]
        ELSE IF action_verb_count >= 3
        THEN [score |-> Pts(1),
              details |-> <<"[!] Limited action verbs (" \o ToString(action_verb_count)
                            \o ") - use more dynamic language">>]
        ELSE [score |-> 0,
              details |-> <<"[x] Few action verbs - rewrite with words like 'developed', 'led', 'implemented'">>]
      structure ==
        IF section_headers >= 4
        THEN [score |-> Pts(2), details |-> <<"[ok] Well-structured with clear section headers">>]
        ELSE IF section_headers >= 2
        THEN [score |-> Pts(1), details |-> <<"[ok] Basic structure with section headers">>]
        ELSE [score |-> 0, details |-> <<>>]
      education ==
        IF Get(sections, "has_education", FALSE)
        THEN [score |-> Pts(1), details |-> <<"[ok] Education section present">>]
        ELSE [score |-> 0, details |-> <<>>]
  IN  [score |-> Min2(len.score + verbs.score + structure.score + education.score, Pts(10)),
       details |-> len.details \o verbs.details \o structure.details \o education.details]

\* percentage is (total_score / max_possible) * 100; total and max in half points
_generate_overall_assessment(total, max) ==
  IF total * 100 >= 85 * max
  THEN [level |-> "Outstanding", color |-> "success",
        description |-> "Exceptional resume with strong ATS optimization. Ready for immediate applications to target companies.",
        recommendation |-> "Start applying to dream companies immediately. Your resume demonstrates strong professional credentials."]
  ELSE IF total * 100 >= 75 * max
  THEN [level |-> "Excellent", color |-> "success",
        description |-> "Strong resume with good ATS performance. Minor improvements could enhance competitiveness.",
        recommendation |-> "Apply to target positions while making suggested minor improvements in parallel."]
  ELSE IF total * 100 >= 65 * max
  THEN [level |-> "Good", color |-> "warning",
        description |-> "Solid resume foundation with room for meaningful improvements to maximize ATS performance.",
        recommendation |-> "Focus on top priority improvements before applying to highly competitive positions."]
  ELSE IF total * 100 >= 50 * max
  THEN [level |-> "Fair", color |-> "warning",
        description |-> "Resume needs significant improvements to compete effectively in current job market.",
        recommendation |-> "Address critical weaknesses before submitting applications. Focus on quantified achievements and technical skills."]
  ELSE [level |-> "Needs Improvement", color |-> "error",
        description |-> "Resume requires major enhancements to pass ATS filters and attract recruiter attention.",
        recommendation |-> "Complete resume overhaul needed. Focus on contact info, skills section, and quantified achievements first."]

\* a category of score_breakdown: the scorer's score and details with the
\* category's max (half points) and weight (hundredths)
Category(name, scored) ==
  [score |-> scored.score, max |-> Pts(CategoryMax[name]), details |-> scored.details,
   weight |-> CategoryMax[name]]

\* sum(category[field] for category in score_breakdown.values())
SumOver(breakdown, field) ==
  SumSeq([i \in 1..Len(CategoryOrder) |-> breakdown[CategoryOrder[i]][field]])

\* score_breakdown after the five category scorers have filled it in
ScoreCategories(text, sections, target, keywords) ==
  [contact_info |-> Category("contact_info", _score_contact_information(sections)),
   technical_skills |->
     Category("technical_skills", _score_technical_skills(text, sections, target, keywords)),
   experience_quality |-> Category("experience_quality", _score_experience_quality(sections)),
   quantified_achievements |->
     Category("quantified_achievements", _score_quantified_achievements(sections)),
   content_optimization |->
     Category("content_optimization", _score_content_optimization(sections))]

\* returns (total_score, max_possible, score_breakdown); text.lower() in
\* _score_technical_skills raises on None, and nothing catches it
calculate_comprehensive_ats_score(text, sections, target, keywords) ==
  IF text = NoneText THEN Raised("AttributeError") ELSE
  LET score_breakdown == ScoreCategories(text, sections, target, keywords)
      total_score == SumOver(score_breakdown, "score")
      max_possible == SumOver(score_breakdown, "max")
  IN  <<total_score, max_possible,
        Update(score_breakdown,
               [overall_assessment |-> _generate_overall_assessment(total_score, max_possible)])>>

\* ------------------------------------------------------------------------
\* strength_weakness_analyzer.py
\* A strength is kept as its 'strength' and 'evidence' entries, a weakness
\* as its 'weakness', 'fix_priority' and 'specific_fix' entries; the other
\* entries of a finding are explanatory sentences fixed by the finding.
\* ------------------------------------------------------------------------
Strength(title, evidence) == [strength |-> title, evidence |-> evidence]

Weakness(title, priority, fix) ==
  [weakness |-> title, fix_priority |-> priority, specific_fix |-> fix]

\* the skill_mappings categories in the order the dict holds them
SkillCategoryOrder ==
  <<"programming_languages", "frameworks_libraries", "databases", "tools_platforms", "methodologies">>

\* [cat for cat, skills in skill_categories.items() if skills]
NonEmptyCategories(skill_categories) ==
  SelectSeq(SkillCategoryOrder,
            LAMBDA c : c \in DOMAIN skill_categories /\ skill_categories[c] # <<>>)

_analyze_experience_strengths(sections) ==
  LET experience_years == Get(sections, "experience_years", 0)
      experience_quality == Get(sections, "experience_quality", 0)
      position_count == Get(sections, "position_count", 0)
  IN  (IF experience_years >= 5
       THEN <<Strength("Extensive Professional Experience (" \o ToString(experience_years) \o " years)",
                       "Resume shows " \o ToString(experience_years)
                       \o " years of documented professional experience with career progression")>>
       ELSE IF experience_years >= 3
       THEN <<Strength("Solid Professional Background (" \o ToString(experience_years) \o " years)",
                       "Resume demonstrates " \o ToString(experience_years)
                       \o " years of professional development and skill building")>>
       ELSE IF experience_years >= 1
       THEN <<Strength("Relevant Professional Experience (" \o ToString(experience_years) \o " years)",
                       "Resume shows " \o ToString(experience_years)
                       \o " years of hands-on professional experience")>>
       ELSE <<>>)
      \o (IF experience_quality >= 70
          THEN <<Strength("Exceptionally Well-Crafted Experience Descriptions",
                          "Experience descriptions score " \o ToString(experience_quality)
                          \o "/100 for quality, showing strong professional writing")>>
          ELSE IF experience_quality >= 50
          THEN <<Strength("Well-Structured Professional Experience",
                          "Experience section demonstrates good professional communication with "
                          \o ToString(experience_quality) \o "/100 quality score")>>
          ELSE <<>>)
      \o (IF Get(sections, "has_leadership", FALSE)
          THEN <<Strength("Demonstrated Leadership Experience",
                          "Resume shows leadership roles and team management responsibilities")>>
          ELSE <<>>)
      \o (IF position_count >= 3
          THEN <<Strength("Diverse Professional Background (" \o ToString(position_count) \o " positions)",
                          "Resume shows progression through " \o ToString(position_count)
                          \o " different professional roles")>>
          ELSE <<>>)

_analyze_technical_strengths(text, sections, target, keywords) ==
  LET skills_count == Get(sections, "skills_count", 0)
      technical_depth == Get(sections, "technical_depth_score", 0)
      role_known == Truthy(target) /\ RoleKey[target] \in DOMAIN keywords
      core_skills == IF role_known THEN keywords[RoleKey[target]].core_skills ELSE <<>>
      matched_core == Matched(core_skills, text)
      non_empty_categories == NonEmptyCategories(Get(sections, "skill_categories", EmptyDict))
  IN  (IF skills_count >= 15
       THEN <<Strength("Extensive Technical Skill Portfolio (" \o ToString(skills_count) \o " skills)",
                       "Resume lists " \o ToString(skills_count)
                       \o " distinct technical skills across multiple categories")>>
       ELSE IF skills_count >= 10
       THEN <<Strength("Strong Technical Foundation (" \o ToString(skills_count) \o " skills)",
                       "Resume demonstrates " \o ToString(skills_count)
                       \o " relevant technical competencies")>>
       ELSE <<>>)
      \o (IF technical_depth >= 10
          THEN <<Strength("Advanced Technical Communication and Depth",
                          "Resume contains " \o ToString(technical_depth)
                          \o " advanced technical concepts and sophisticated language")>>
          ELSE IF technical_depth >= 5
          THEN <<Strength("Good Technical Understanding and Communication",
                          "Resume shows " \o ToString(technical_depth)
                          \o " technical concepts indicating solid technical understanding")>>
          ELSE <<>>)
      \* len(matched_core) >= len(core_skills) * 0.7
      \o (IF role_known /\ 10 * Len(matched_core) >= 7 * Len(core_skills)
          THEN <<Strength("Strong " \o target \o " Technical Alignment",
                          "Resume matches " \o ToString(Len(matched_core)) \o " out of "
                          \o ToString(Len(core_skills)) \o " core " \o target \o " skills: "
                          \o Join(Prefix(matched_core, 5)))>>
          ELSE <<>>)
      \o (IF Len(non_empty_categories) >= 4
          THEN <<Strength("Excellent Technical Skill Diversity",
                          "Technical skills cover " \o ToString(Len(non_empty_categories))
                          \o " major categories: " \o Join(Prefix(non_empty_categories, 4)))>>
          ELSE <<>>)

_analyze_achievement_strengths(sections) ==
  LET achievement_count == Get(sections, "quantified_achievements", 0)
      achievement_diversity == Get(sections, "achievement_diversity", 0)
  IN  (IF achievement_count >= 4
       THEN <<Strength("Exceptional Quantified Impact Documentation (" \o ToString(achievement_count)
                       \o " metrics)",
                       "Resume contains " \o ToString(achievement_count)
                       \o " specific metrics showing measurable business impact")>>
       ELSE IF achievement_count >= 2
       THEN <<Strength("Good Results-Oriented Approach (" \o ToString(achievement_count)
                       \o " quantified achievements)",
                       "Resume includes " \o ToString(achievement_count)
                       \o " quantified achievements demonstrating measurable results")>>
       ELSE <<>>)
      \o (IF achievement_diversity >= 3
          THEN <<Strength("Diverse Impact Across Multiple Business Areas",
                          "Achievements span " \o ToString(achievement_diversity)
                          \o " different impact categories showing comprehensive contribution")>>
          ELSE <<>>)

_analyze_content_quality_strengths(sections) ==
  LET word_count == Get(sections, "word_count", 0)
      action_verb_count == Get(sections, "action_verb_count", 0)
  IN  (IF 400 <= word_count /\ word_count <= 800
       THEN <<Strength("Optimal Resume Length and Detail (" \o ToString(word_count) \o " words)",
                       "Resume contains " \o ToString(word_count)
                       \o " words, optimal for both ATS systems and human reviewers")>>
       ELSE <<>>)
      \o (IF action_verb_count >= 8
          THEN <<Strength("Dynamic Professional Language (" \o ToString(action_verb_count)
                          \o " action verbs)",
                          "Resume uses " \o ToString(action_verb_count)
                          \o " different action verbs showing proactive professional approach")>>
          ELSE <<>>)

_analyze_professional_presentation_strengths(sections) ==
  LET education_mentions == Get(sections, "education_mention_count", 0)
  IN  (IF Truthy(Get(sections, "email", None)) /\ Truthy(Get(sections, "phone", None))
       THEN <<Strength("Complete Professional Contact Information",
                       "Resume includes both email and phone contact methods for professional accessibility")>>
       ELSE <<>>)
      \o (IF Get(sections, "has_education", FALSE) /\ education_mentions >= 3
          THEN <<Strength("Strong Educational Foundation and Presentation",
                          "Resume contains " \o ToString(education_mentions)
                          \o " educational elements showing strong academic foundation")>>
          ELSE <<>>)

\* A faulty variant of _analyze_contact_weaknesses, without the finding of
\* the missing email: C7_NoContactCritical does not hold of it.
PhoneWeaknessOnly(sections) ==
  IF ~Truthy(Get(sections, "phone", None))
  THEN <<Weakness("Missing Phone Number Contact Information",
                  "HIGH - Important for professional accessibility",
                  "Add formatted phone number (XXX) XXX-XXXX in the contact section")>>
  ELSE <<>>

\* A faulty variant of _analyze_contact_weaknesses, whose two findings carry
\* the same priority: C15_PriorityLevels does not hold of it.
ContactWeaknessesAllHigh(sections) ==
  (IF ~Truthy(Get(sections, "email", None))
   THEN <<Weakness("Missing Professional Email Address",
                   "HIGH - Important for professional accessibility",
                   "Add a professional email address (firstname.lastname@gmail.com) prominently in the resume header")>>
   ELSE <<>>)
  \o (IF ~Truthy(Get(sections, "phone", None))
      THEN <<Weakness("Missing Phone Number Contact Information",
                      "HIGH - Important for professional accessibility",
                      "Add formatted phone number (XXX) XXX-XXXX in the contact section")>>
      ELSE <<>>)

_analyze_contact_weaknesses(sections) ==
  (IF ~Truthy(Get(sections, "email", None))
   THEN <<Weakness("Missing Professional Email Address",
                   "CRITICAL - Must be fixed immediately before any job applications",
                   "Add a professional email address (firstname.lastname@gmail.com) prominently in the resume header")>>
   ELSE <<>>)
  \o (IF ~Truthy(Get(sections, "phone", None))
      THEN <<Weakness("Missing Phone Number Contact Information",
                      "HIGH - Important for professional accessibility",
                      "Add formatted phone number (XXX) XXX-XXXX in the contact section")>>
      ELSE <<>>)

\* the technical weaknesses with the role finding from two missing core skills
TechnicalWeaknessesFromTwoMissing(text, sections, target, keywords) ==
  LET skills_count == Get(sections, "skills_count", 0)
      technical_depth == Get(sections, "technical_depth_score", 0)
      role_known == Truthy(target) /\ RoleKey[target] \in DOMAIN keywords
      core_skills == IF role_known THEN keywords[RoleKey[target]].core_skills ELSE <<>>
      missing_core == Missing(Prefix(core_skills, 6), text)
  IN  (IF skills_count < 6
       THEN <<Weakness("Limited Technical Skills Documentation (" \o ToString(skills_count)
                       \o " skills listed)",
                       "HIGH - Critical for technical role competitiveness",
                       "Expand skills section to 10-15 relevant technical skills including programming languages, tools, and frameworks")>>
       ELSE <<>>)
      \o (IF Get(sections, "skills_text", <<>>) = <<>>
          THEN <<Weakness("No Dedicated Technical Skills Section",
                          "CRITICAL - Essential for technical role applications",
                          "Create prominent \"Technical Skills\" section with programming languages, frameworks, tools, and methodologies")>>
          ELSE <<>>)
      \o (IF role_known /\ Len(missing_core) >= 2
          THEN <<Weakness("Missing Critical " \o target \o " Technical Skills",
                          "HIGH - Essential for " \o target \o " role targeting",
                          "Add these critical " \o target \o " skills: " \o Join(Prefix(missing_core, 4)))>>
          ELSE <<>>)
      \o (IF technical_depth < 3
          THEN <<Weakness("Limited Technical Depth and Sophistication",
                          "MEDIUM - Important for senior role positioning",
                          "Add technical details about system architecture, optimization challenges, and advanced concepts you've worked with")>>
          ELSE <<>>)

_analyze_technical_weaknesses(text, sections, target, keywords) ==
  LET skills_count == Get(sections, "skills_count", 0)
      technical_depth == Get(sections, "technical_depth_score", 0)
      role_known == Truthy(target) /\ RoleKey[target] \in DOMAIN keywords
      core_skills == IF role_known THEN keywords[RoleKey[target]].core_skills ELSE <<>>
      missing_core == Missing(Prefix(core_skills, 6), text)
  IN  (IF skills_count < 6
       THEN <<Weakness("Limited Technical Skills Documentation (" \o ToString(skills_count)
                       \o " skills listed)",
                       "HIGH - Critical for technical role competitiveness",
                       "Expand skills section to 10-15 relevant technical skills including programming languages, tools, and frameworks")>>
       ELSE <<>>)
      \o (IF Get(sections, "skills_text", <<>>) = <<>>
          THEN <<Weakness("No Dedicated Technical Skills Section",
                          "CRITICAL - Essential for technical role applications",
                          "Create prominent \"Technical Skills\" section with programming languages, frameworks, tools, and methodologies")>>
          ELSE <<>>)
      \o (IF role_known /\ Len(missing_core) >= 3
          THEN <<Weakness("Missing Critical " \o target \o " Technical Skills",
                          "HIGH - Essential for " \o target \o " role targeting",
                          "Add these critical " \o target \o " skills: " \o Join(Prefix(missing_core, 4)))>>
          ELSE <<>>)
      \o (IF technical_depth < 3
          THEN <<Weakness("Limited Technical Depth and Sophistication",
                          "MEDIUM - Important for senior role positioning",
                          "Add technical details about system architecture, optimization challenges, and advanced concepts you've worked with")>>
          ELSE <<>>)

_analyze_experience_weaknesses(sections) ==
  LET experience_years == Get(sections, "experience_years", 0)
      experience_quality == Get(sections, "experience_quality", 0)
      project_count == Get(sections, "project_count", 0)
  IN  (IF experience_years = 0
       THEN <<Weakness("No Documented Professional Work Experience",
                       "HIGH - Critical for professional role applications",
                       "Add internships, part-time work, freelance projects, or significant volunteer work with professional responsibilities")>>
       ELSE <<>>)
      \o (IF experience_quality < 30
          THEN <<Weakness("Poor Quality Experience Descriptions",
                          "HIGH - Critical for professional presentation",
                          "Rewrite experience bullets using strong action verbs (developed, led, implemented) and add specific metrics and outcomes")>>
          ELSE <<>>)
      \o (IF project_count < 2
          THEN <<Weakness("Inadequate Project Portfolio (" \o ToString(project_count) \o " projects shown)",
                          "MEDIUM - Important for demonstrating practical skills",
                          "Add 2-3 detailed technical projects showing technology stack, challenges solved, and outcomes achieved")>>
          ELSE <<>>)

_analyze_achievement_weaknesses(sections) ==
  LET achievement_count == Get(sections, "quantified_achievements", 0)
  IN  IF achievement_count = 0
      THEN <<Weakness("No Quantified Achievements or Impact Metrics",
                      "HIGH - Critical for demonstrating value delivery",
                      "Add specific percentages, dollar amounts, time savings, user numbers, or performance improvements to each major accomplishment")>>
      ELSE IF achievement_count = 1
      THEN <<Weakness("Insufficient Quantified Achievement Documentation",
                      "MEDIUM - Important for competitive positioning",
                      "Identify and add 2-3 additional quantified achievements across different projects and roles")>>
      ELSE <<>>

_analyze_content_structure_weaknesses(sections) ==
  LET word_count == Get(sections, "word_count", 0)
      action_verb_count == Get(sections, "action_verb_count", 0)
  IN  (IF word_count < 300
       THEN <<Weakness("Resume Too Brief (" \o ToString(word_count) \o " words)",
                       "MEDIUM - Important for professional presentation",
                       "Expand project descriptions, experience details, and technical accomplishments to reach 400-800 words")>>
       ELSE IF word_count > 1200
       THEN <<Weakness("Resume Excessively Long (" \o ToString(word_count) \o " words)",
                       "MEDIUM - Important for optimal ATS performance",
                       "Condense content to 600-900 words by removing redundant information and focusing on most impactful achievements")>>
       ELSE <<>>)
      \o (IF action_verb_count < 4
          THEN <<Weakness("Limited Action Verb Usage (" \o ToString(action_verb_count) \o " action verbs)",
                          "MEDIUM - Important for professional language quality",
                          "Rewrite experience and project descriptions using strong action verbs like \"developed,\" \"led,\" \"implemented,\" \"optimized\"")>>
          ELSE <<>>)

\* strengths_detailed
Strengths(text, sections, target, keywords) ==
  _analyze_experience_strengths(sections)
  \o _analyze_technical_strengths(text, sections, target, keywords)
  \o _analyze_achievement_strengths(sections)
  \o _analyze_content_quality_strengths(sections)
  \o _analyze_professional_presentation_strengths(sections)

\* A faulty variant of Weaknesses, with the technical findings ahead of the
\* contact findings: C16_CategoryOrder does not hold of it.
WeaknessesTechnicalFirst(text, sections, target, keywords) ==
  _analyze_technical_weaknesses(text, sections, target, keywords)
  \o _analyze_contact_weaknesses(sections)
  \o _analyze_experience_weaknesses(sections)
  \o _analyze_achievement_weaknesses(sections)
  \o _analyze_content_structure_weaknesses(sections)

\* weaknesses_detailed
Weaknesses(text, sections, target, keywords) ==
  _analyze_contact_weaknesses(sections)
  \o _analyze_technical_weaknesses(text, sections, target, keywords)
  \o _analyze_experience_weaknesses(sections)
  \o _analyze_achievement_weaknesses(sections)
  \o _analyze_content_structure_weaknesses(sections)

\* returns (strengths_detailed, weaknesses_detailed); text.lower() in
\* _analyze_technical_strengths raises on None
analyze_comprehensive_strengths_weaknesses(text, sections, target, keywords) ==
  IF text = NoneText THEN Raised("AttributeError") ELSE
  <<Strengths(text, sections, target, keywords), Weaknesses(text, sections, target, keywords)>>

\* ------------------------------------------------------------------------
\* job_matcher.py
\* ------------------------------------------------------------------------
\* role_key.replace('_', ' ').title()
RoleName ==
  "software_developer" :> "Software Developer" @@
  "data_scientist" :> "Data Scientist" @@
  "ai_engineer" :> "Ai Engineer" @@
  "full_stack_developer" :> "Full Stack Developer" @@
  "devops_engineer" :> "Devops Engineer"

\* the role names n with 'AI' in n or 'Data' in n
EmergingNames == {"Data Scientist"}

\* the role names n with n in ['Software Developer', 'Full Stack Developer']
StableNames == {"Software Developer", "Full Stack Developer"}

\* _estimate_salary_range: for an experience bracket and a competency tier (high: >= 75,
\* mid: >= 60, low), f"${int(base_min * multiplier):,} - ${int(base_max * multiplier):,}"
SalaryRange ==
  0 :> [high |-> "$51,749 - $80,500", mid |-> "$45,000 - $70,000", low |-> "$40,500 - $63,000"] @@
  1 :> [high |-> "$63,249 - $97,749", mid |-> "$55,000 - $85,000", low |-> "$49,500 - $76,500"] @@
  2 :> [high |-> "$74,750 - $114,999", mid |-> "$65,000 - $100,000", low |-> "$58,500 - $90,000"] @@
  3 :> [high |-> "$86,250 - $138,000", mid |-> "$75,000 - $120,000", low |-> "$67,500 - $108,000"] @@
  5 :> [high |-> "$103,499 - $161,000", mid |-> "$90,000 - $140,000", low |-> "$81,000 - $126,000"] @@
  8 :> [high |-> "$126,499 - $195,499", mid |-> "$110,000 - $170,000", low |-> "$99,000 - $153,000"]

\* market_conditions of _assess_job_availability
market_conditions ==
  "software_developer" :> "High demand across all industries" @@
  "data_scientist" :> "Strong demand in tech and finance sectors" @@
  "ai_engineer" :> "Rapidly growing demand, especially in AI companies" @@
  "full_stack_developer" :> "Consistent high demand for versatile developers" @@
  "devops_engineer" :> "High demand as companies adopt cloud infrastructure"

\* the stages of _generate_career_progression, for the roles that have one
CareerStages ==
  "software_developer" :> <<"Junior Developer", "Software Developer", "Senior Developer", "Tech Lead", "Engineering Manager">> @@
  "data_scientist" :> <<"Data Analyst", "Data Scientist", "Senior Data Scientist", "Principal Data Scientist", "Head of Data Science">> @@
  "ai_engineer" :> <<"ML Engineer", "AI Engineer", "Senior AI Engineer", "Principal AI Engineer", "AI Research Director">>

\* A faulty variant of _calculate_role_compatibility, whose maximum counts
\* three points for every keyword: C3_CompatibilityPercentage does not hold
\* of it.
UnweightedMaximum(text, keywords) ==
  [role_key \in DOMAIN keywords |->
     LET role_data == keywords[role_key]
         matched_core == Matched(role_data.core_skills, text)
         matched_frameworks == Matched(role_data.frameworks, text)
         matched_methodologies == Matched(role_data.methodologies, text)
         matched_platforms == Matched(role_data.platforms, text)
     IN  [score |->
            [total |-> Len(matched_core) * 6 + Len(matched_frameworks) * 4
                       + Len(matched_methodologies) * 3 + Len(matched_platforms) * 2,
             max |-> 6 * (Len(role_data.core_skills) + Len(role_data.frameworks)
                          + Len(role_data.methodologies) + Len(role_data.platforms))],
          matched_core_skills |-> matched_core,
          matched_frameworks |-> matched_frameworks,
          matched_methodologies |-> matched_methodologies,
          matched_platforms |-> matched_platforms,
          missing_core_skills |-> Missing(role_data.core_skills, text),
          missing_frameworks |-> Missing(role_data.frameworks, text),
          role_data |-> role_data]]

\* The compatibility percentage total_score / max_possible_score * 100 is
\* kept as the pair of the two sums, in half points (the weights 3, 2, 1.5
\* and 1 are 6, 4, 3 and 2 half points).
_calculate_role_compatibility(text, keywords) ==
  [role_key \in DOMAIN keywords |->
     LET role_data == keywords[role_key]
         core_skills == Get(role_data, "core_skills", <<>>)
         frameworks == Get(role_data, "frameworks", <<>>)
         methodologies == Get(role_data, "methodologies", <<>>)
         platforms == Get(role_data, "platforms", <<>>)
         matched_core == Matched(core_skills, text)
         matched_frameworks == Matched(frameworks, text)
         matched_methodologies == Matched(methodologies, text)
         matched_platforms == Matched(platforms, text)
         total_score == Len(matched_core) * 6 + Len(matched_frameworks) * 4
                        + Len(matched_methodologies) * 3 + Len(matched_platforms) * 2
         max_possible_score == Len(core_skills) * 6 + Len(frameworks) * 4
                               + Len(methodologies) * 3 + Len(platforms) * 2
     IN  [score |-> IF max_possible_score > 0
                    THEN [total |-> total_score, max |-> max_possible_score]
                    ELSE [total |-> 0, max |-> 1],
          matched_core_skills |-> matched_core,
          matched_frameworks |-> matched_frameworks,
          matched_methodologies |-> matched_methodologies,
          matched_platforms |-> matched_platforms,
          missing_core_skills |-> Missing(core_skills, text),
          missing_frameworks |-> Missing(frameworks, text),
          role_data |-> role_data]]

\* score >= n, for a compatibility percentage
AtLeast(score, n) == 100 * score.total >= n * score.max

\* a < b, for two compatibility percentages
Below(a, b) == a.total * b.max < b.total * a.max

\* f"{score:.1f}": the percentage in tenths, rounded to the nearest
Tenths(score) == (2000 * score.total + score.max) \div (2 * score.max)

\* f"{score:.1f}%"
Format1f(score) ==
  ToString(Tenths(score) \div 10) \o "." \o ToString(Tenths(score) % 10) \o "%"

\* A faulty variant of SortedRoles, which sorts without reverse=True, the
\* lowest score first: C17_RankedSuggestions does not hold of it.
SortedRolesAscending(role_compatibility) ==
  LET keys == SelectSeq(RoleOrder, LAMBDA k : k \in DOMAIN role_compatibility)
      items == {<<i, role_compatibility[keys[i]].score>> : i \in 1..Len(keys)}
      Before(p) == {q \in items : \/ Below(q[2], p[2])
                                  \/ q[1] < p[1] /\ ~Below(p[2], q[2])}
  IN  [n \in 1..Len(keys) |->
         keys[(CHOOSE p \in items : Cardinality(Before(p)) = n - 1)[1]]]

\* A faulty variant of SortedRoles, which puts the later role of the dict
\* first among roles of equal score: C30_TiesInCatalogOrder does not hold of it.
SortedRolesLaterFirst(role_compatibility) ==
  LET keys == SelectSeq(RoleOrder, LAMBDA k : k \in DOMAIN role_compatibility)
      items == {<<i, role_compatibility[keys[i]].score>> : i \in 1..Len(keys)}
      Before(p) == {q \in items : \/ Below(p[2], q[2])
                                  \/ q[1] > p[1] /\ ~Below(q[2], p[2])}
  IN  [n \in 1..Len(keys) |->
         keys[(CHOOSE p \in items : Cardinality(Before(p)) = n - 1)[1]]]

\* sorted(role_compatibility.items(), key=score, reverse=True): the sort
\* is stable, so roles of equal score stay in the order of the dict
SortedRoles(role_compatibility) ==
  LET keys == SelectSeq(RoleOrder, LAMBDA k : k \in DOMAIN role_compatibility)
      items == {<<i, role_compatibility[keys[i]].score>> : i \in 1..Len(keys)}
      Before(p) == {q \in items : \/ Below(p[2], q[2])
                                  \/ q[1] < p[1] /\ ~Below(q[2], p[2])}
  IN  [n \in 1..Len(keys) |->
         keys[(CHOOSE p \in items : Cardinality(Before(p)) = n - 1)[1]]]

\* the explanation is fixed by the level
_assess_role_fit(score) ==
  IF AtLeast(score, 80)
  THEN [level |-> "Excellent Fit",
        timeline |-> "Ready to apply immediately - start targeting premium positions"]
  ELSE IF AtLeast(score, 65)
  THEN [level |-> "Very Good Fit",
        timeline |-> "2-4 weeks of targeted preparation to become highly competitive"]
  ELSE IF AtLeast(score, 50)
  THEN [level |-> "Good Fit",
        timeline |-> "2-3 months of focused skill development to become competitive"]
  ELSE IF AtLeast(score, 35)
  THEN [level |-> "Potential Fit",
        timeline |-> "4-6 months of intensive skill building required"]
  ELSE [level |-> "Limited Fit",
        timeline |-> "6-12 months of comprehensive skill development needed"]

_assess_advancement_potential(experience_years, score) ==
  IF experience_years >= 8 /\ AtLeast(score, 80)
  THEN "Excellent advancement potential - ready for senior/leadership positions"
  ELSE IF experience_years >= 5 /\ AtLeast(score, 70)
  THEN "Strong advancement potential - focus on leadership and strategic skills"
  ELSE IF experience_years >= 3 /\ AtLeast(score, 60)
  THEN "Good advancement potential - continue technical depth and leadership development"
  ELSE IF experience_years >= 1 /\ AtLeast(score, 50)
  THEN "Moderate advancement potential - focus on skill development and experience building"
  ELSE "Limited immediate advancement potential - prioritize foundational skill development"

_assess_seniority_level(experience_years, score) ==
  [suggested_level |->
     IF experience_years >= 8 THEN "Senior/Lead"
     ELSE IF experience_years >= 5 THEN "Senior"
     ELSE IF experience_years >= 3 THEN "Mid-Level"
     ELSE IF experience_years >= 1 THEN "Junior"
     ELSE "Entry-Level",
   competency_assessment |->
     IF AtLeast(score, 80) THEN "High technical competency may qualify for senior positions"
     ELSE IF AtLeast(score, 65) THEN "Good technical skills align well with stated experience level"
     ELSE IF ~AtLeast(score, 50) THEN "Technical skills may limit to entry-level positions initially"
     ELSE "Technical skills are appropriate for current experience level",
   salary_expectation |->
     (IF experience_years >= 8 THEN "1.3"
      ELSE IF experience_years >= 5 THEN "1.2"
      ELSE IF experience_years >= 3 THEN "1.0"
      ELSE IF experience_years >= 1 THEN "0.8"
      ELSE "0.7") \o "x market rate for role",
   advancement_potential |-> _assess_advancement_potential(experience_years, score)]

\* stages always has five entries
_determine_career_stage(experience_years, stages) ==
  IF experience_years = 0 THEN stages[1]
  ELSE IF experience_years <= 2 THEN stages[2]
  ELSE IF experience_years <= 5 THEN stages[3]
  ELSE IF experience_years <= 8 THEN stages[4]
  ELSE stages[5]

\* the 'current_stage' entry of the progression
_generate_career_progression(role_key, experience_years) ==
  IF role_key \in DOMAIN CareerStages
  THEN _determine_career_stage(experience_years, CareerStages[role_key])
  ELSE "Estimated at "
       \o _determine_career_stage(experience_years,
            <<"Entry Level", "Mid Level", "Senior Level", "Lead Level", "Management Level">>)

_assess_job_availability(role_key, score) ==
  Lookup(market_conditions, role_key, "Moderate demand in various industries")
  \o (IF AtLeast(score, 70) THEN " - Your strong skill match provides excellent opportunities"
      ELSE IF AtLeast(score, 50) THEN " - Good opportunities with targeted skill development"
      ELSE " - Limited immediate opportunities, skill development recommended")

_generate_immediate_actions(compatibility_data, role_name) ==
  LET missing_core == Prefix(compatibility_data.missing_core_skills, 2)
      matched_skills == Len(compatibility_data.matched_core_skills)
      missing_frameworks == Prefix(compatibility_data.missing_frameworks, 2)
  IN  (IF missing_core # <<>>
       THEN <<"Priority learning: Start with " \o Join(missing_core) \o " as core "
              \o role_name \o " requirements">>
       ELSE <<>>)
      \o (IF matched_skills > 0
          THEN <<"Leverage strengths: Highlight your " \o ToString(matched_skills)
                 \o " matching core skills in applications">>
          ELSE <<>>)
      \o (IF missing_frameworks # <<>>
          THEN <<"Technical expansion: Learn " \o Join(missing_frameworks)
                 \o " to improve technical stack">>
          ELSE <<>>)
      \o <<"Resume optimization: Add " \o role_name \o "-specific keywords and project examples",
           "Networking: Connect with professionals in target role through LinkedIn and industry events">>

\* the 'skills' entries of the three priorities
_prioritize_skill_development(compatibility_data) ==
  [critical_skills |-> Prefix(compatibility_data.missing_core_skills, 2),
   important_skills |-> Prefix(compatibility_data.missing_frameworks, 2),
   enhancement_skills |->
     SubSeq(compatibility_data.missing_core_skills, 3,
            Min2(4, Len(compatibility_data.missing_core_skills)))]

\* the entries that depend on the text
_generate_keyword_strategy(compatibility_data) ==
  [strengthen_existing |->
     "Emphasize these matching skills: "
     \o Join(Prefix(compatibility_data.matched_core_skills
                    \o compatibility_data.matched_frameworks, 5)),
   add_missing |->
     "Add these critical keywords: " \o Join(Prefix(compatibility_data.missing_core_skills, 3))]

\* one suggestion of _generate_detailed_role_suggestions; the entries that
\* are fixed sentences of the role (typical projects, learning resources,
\* networking, customization, portfolio and interview advice) are left out
Suggestion(role_key, compatibility_data, sections, insights) ==
  LET score == compatibility_data.score
      role_data == compatibility_data.role_data
      industry_info == Get(insights, role_key, EmptyDict)
      experience_years == Get(sections, "experience_years", 0)
      fit_assessment == _assess_role_fit(score)
  IN  [role |-> RoleName[role_key],
       compatibility_score |-> Format1f(score),
       \* what float(compatibility_score.replace('%', '')) reads back, in tenths
       compatibility_float |-> Tenths(score),
       fit_level |-> fit_assessment.level,
       readiness_timeline |-> fit_assessment.timeline,
       technical_alignment |->
         [core_skills_matched |-> compatibility_data.matched_core_skills,
          frameworks_matched |-> compatibility_data.matched_frameworks,
          methodologies_matched |-> compatibility_data.matched_methodologies,
          platforms_matched |-> compatibility_data.matched_platforms,
          skill_gaps |->
            [critical |-> Prefix(compatibility_data.missing_core_skills, 3),
             important |-> Prefix(compatibility_data.missing_frameworks, 3),
             beneficial |->
               SubSeq(compatibility_data.missing_core_skills, 4,
                      Min2(6, Len(compatibility_data.missing_core_skills)))]],
       role_details |->
         [daily_responsibilities |-> Get(role_data, "daily_tasks", <<>>),
          required_tech_stack |-> Get(role_data, "tech_stack", "Not specified"),
          current_stage |-> _generate_career_progression(role_key, experience_years)],
       seniority_analysis |-> _assess_seniority_level(experience_years, score),
       market_insights |->
         [growth_outlook |-> Get(industry_info, "growth_outlook", "Stable market demand"),
          salary_range |-> Get(industry_info, "salary_range", "Competitive market rates"),
          key_employers |-> Get(industry_info, "key_companies", <<>>),
          trending_technologies |-> Get(industry_info, "trending_skills", <<>>),
          job_availability |-> _assess_job_availability(role_key, score)],
       development_plan |->
         [immediate_actions |-> _generate_immediate_actions(compatibility_data, RoleName[role_key]),
          skill_development_priority |-> _prioritize_skill_development(compatibility_data)],
       keyword_optimization |-> _generate_keyword_strategy(compatibility_data)]

\* the six roles of highest score, highest first
_generate_detailed_role_suggestions(role_compatibility, sections, insights) ==
  LET sorted_roles == Prefix(SortedRoles(role_compatibility), 6)
  IN  [i \in 1..Len(sorted_roles) |->
         Suggestion(sorted_roles[i], role_compatibility[sorted_roles[i]], sections, insights)]

\* A faulty variant of _create_career_roadmap, which takes the last
\* suggestion for the top role: C18_RoadmapOfTopRole does not hold of it.
RoadmapOfLastRole(sections, detailed_suggestions) ==
  IF detailed_suggestions = <<>>
  THEN [message |-> "Unable to generate career roadmap without role analysis"]
  ELSE LET top_role == detailed_suggestions[Len(detailed_suggestions)]
       IN  [current_position |->
              "Professional with " \o ToString(Get(sections, "experience_years", 0))
              \o " years experience",
            recommended_target |-> top_role.role \o " (" \o top_role.fit_level \o ")",
            development_timeline |-> top_role.readiness_timeline,
            skill_development_plan |-> top_role.development_plan.skill_development_priority]

_create_career_roadmap(sections, detailed_suggestions) ==
  IF detailed_suggestions = <<>>
  THEN [message |-> "Unable to generate career roadmap without role analysis"]
  ELSE LET top_role == detailed_suggestions[1]
       IN  [current_position |->
              "Professional with " \o ToString(Get(sections, "experience_years", 0))
              \o " years experience",
            recommended_target |-> top_role.role \o " (" \o top_role.fit_level \o ")",
            development_timeline |-> top_role.readiness_timeline,
            skill_development_plan |-> top_role.development_plan.skill_development_priority]

\* float(compatibility_score.replace('%', '')) is the percentage in tenths
_estimate_salary_range(experience_years, compatibility_float) ==
  LET brackets == {b \in DOMAIN SalaryRange : experience_years >= b}
      exp_bracket == CHOOSE b \in brackets : \A c \in brackets : c <= b
  IN  IF compatibility_float >= 750 THEN SalaryRange[exp_bracket].high
      ELSE IF compatibility_float >= 600 THEN SalaryRange[exp_bracket].mid
      ELSE SalaryRange[exp_bracket].low

\* the entries that depend on the suggestions
_generate_market_analysis(detailed_suggestions, sections) ==
  IF detailed_suggestions = <<>>
  THEN [message |-> "Unable to generate market analysis"]
  ELSE LET top_three_roles == Prefix(detailed_suggestions, 3)
           Roles(Keep(_)) ==
             LET kept == SelectSeq(top_three_roles, Keep)
             IN  [i \in 1..Len(kept) |-> kept[i].role]
       IN  [market_opportunities |->
              [high_compatibility_roles |-> Roles(LAMBDA s : s.compatibility_float >= 600),
               emerging_opportunities |-> Roles(LAMBDA s : s.role \in EmergingNames),
               stable_career_paths |-> Roles(LAMBDA s : s.role \in StableNames)],
            salary_expectations |->
              [current_level_range |->
                 _estimate_salary_range(Get(sections, "experience_years", 0),
                                        top_three_roles[1].compatibility_float),
               premium_positions |->
                 "Top-tier companies may offer 20-30% above market rate for "
                 \o top_three_roles[1].role \o " skills"]]

\* next_steps is fixed by the readiness level
_assess_overall_job_readiness(sections) ==
  LET experience_years == Get(sections, "experience_years", 0)
      skills_count == Get(sections, "skills_count", 0)
      project_count == Get(sections, "project_count", 0)
      achievements == Get(sections, "quantified_achievements", 0)
      experience == IF experience_years >= 3
                    THEN [score |-> 30, factor |-> "Strong professional experience base"]
                    ELSE IF experience_years >= 1
                    THEN [score |-> 20, factor |-> "Some professional experience"]
                    ELSE [score |-> 0, factor |-> "Limited professional experience - focus on projects and skills"]
      skills == IF skills_count >= 12
                THEN [score |-> 25, factor |-> "Comprehensive technical skill set"]
                ELSE IF skills_count >= 6
                THEN [score |-> 15, factor |-> "Good technical foundation"]
                ELSE [score |-> 0, factor |-> "Limited technical skills documented"]
      projects == IF project_count >= 3
                  THEN [score |-> 25, factor |-> "Strong project portfolio"]
                  ELSE IF project_count >= 1
                  THEN [score |-> 15, factor |-> "Some project experience"]
                  ELSE [score |-> 0, factor |-> "Insufficient project demonstration"]
      achieved == IF achievements >= 2
                  THEN [score |-> 20, factor |-> "Quantified professional achievements"]
                  ELSE IF achievements >= 1
                  THEN [score |-> 10, factor |-> "Some measurable impact shown"]
                  ELSE [score |-> 0, factor |-> "No quantified achievements documented"]
      readiness_score == experience.score + skills.score + projects.score + achieved.score
  IN  [readiness_level |->
         IF readiness_score >= 80 THEN "Highly Job Ready"
         ELSE IF readiness_score >= 60 THEN "Job Ready"
         ELSE IF readiness_score >= 40 THEN "Moderately Ready"
         ELSE "Needs Development",
       readiness_score |-> ToString(readiness_score) \o "/100",
       key_factors |-> <<experience.factor, skills.factor, projects.factor, achieved.factor>>]

\* target_role is accepted and not used; text.lower() raises on None
get_comprehensive_job_analysis(text, sections, keywords, insights) ==
  IF text = NoneText THEN Raised("AttributeError") ELSE
  LET role_compatibility == _calculate_role_compatibility(text, keywords)
      detailed_suggestions ==
        _generate_detailed_role_suggestions(role_compatibility, sections, insights)
  IN  [role_suggestions |-> detailed_suggestions,
       career_roadmap |-> _create_career_roadmap(sections, detailed_suggestions),
       market_insights |-> _generate_market_analysis(detailed_suggestions, sections),
       overall_readiness |-> _assess_overall_job_readiness(sections)]

\* ------------------------------------------------------------------------
\* State
\* ------------------------------------------------------------------------
VARIABLES
  text,               \* the resume text handed to the components
  target_role,        \* the target_role argument (None when absent)
  current_year,       \* config.CURRENT_YEAR, read when the process starts
  hash_order,         \* the string hash order of the running process
  sections,           \* the fact model returned by the parser
  ats_keywords,       \* config.ATS_KEYWORDS as held by the components
  industry_insights,  \* config.INDUSTRY_INSIGHTS as held by the components
  frame,              \* the local variables of the calls in progress
  score_result,       \* the result of calculate_comprehensive_ats_score
  analysis_result,    \* the result of analyze_comprehensive_strengths_weaknesses
  job_result,         \* the result of get_comprehensive_job_analysis
  pc,                 \* where each component is in its call
  prev                \* the results of the previous run of the pipeline

vars ==
  <<text, target_role, current_year, hash_order, sections, ats_keywords,
    industry_insights, frame, score_result, analysis_result, job_result, pc, prev>>

\* ------------------------------------------------------------------------
\* The texts
\* ------------------------------------------------------------------------
EmailLine(a) == [kind |-> "email", addr |-> a]

PhoneLine(r) == [kind |-> "phone", raw |-> r]

SkillsLine(h, n) == [kind |-> "skills", heading |-> h, n |-> n]

WordsLine(ws) == [kind |-> "words", words |-> ws]

BulletLine(s) == [kind |-> "bullet", s |-> s]

HeadingLine(t) == [kind |-> "heading", title |-> t]

RangeLine(a, b) == [kind |-> "range", start |-> a, end |-> b, open |-> ""]

OpenRangeLine(a, w) == [kind |-> "range", start |-> a, end |-> a, open |-> w]

YearsExpLine(n) == [kind |-> "years_exp", n |-> n]

YearLine(y) == [kind |-> "year", y |-> y]

MaxContact == 2

MaxBody == 2

MaxSkills == 13

MaxContent == 2

MaxProjects == 3

MaxYears == 6

\* the sequences of at most n elements of S
RECURSIVE SeqsUpTo(_, _)
SeqsUpTo(S, n) ==
  IF n = 0 THEN {<<>>}
  ELSE LET shorter == SeqsUpTo(S, n - 1)
       IN  shorter \cup {Append(s, x) : s \in shorter, x \in S}

ContactLines ==
  {EmailLine(a) : a \in {"jane@gmail.com", "j.doe@corp.io"}}
  \cup {PhoneLine(r) : r \in {"555-123-4567", "+1 555 123 4567", "9876543210", "+44 20 79 46"}}

ExperienceLines ==
  {RangeLine(2018, 2021), RangeLine(2021, 2018), RangeLine(2018, 2030),
   OpenRangeLine(2018, "present"), OpenRangeLine(2021, "current"),
   YearsExpLine(3), YearsExpLine(12),
   YearLine(2018), YearLine(2030), YearLine(1998)}

ContentLines ==
  {HeadingLine("Summary"), HeadingLine("Education"), HeadingLine("Experience"),
   WordsLine(<<"R">>), WordsLine(<<"Machine Learning">>),
   WordsLine(<<"Bachelor", "University", "degree">>),
   WordsLine(<<"Senior Developer", "Team Lead", "Intern">>),
   WordsLine(<<"REST API", "Microservices", "Kubernetes", "Node.js">>),
   BulletLine("Improved performance by 30%"),
   BulletLine("Led team and saved $20k"),
   BulletLine("Built app with 10k+ users")}

SkillHeadings ==
  {"Skills", "Technical Skills", "Technologies", "Programming Languages",
   "Tools & Technologies", "Core Competencies"}

\* texts about the contact lines
ContactTexts ==
  {c \o t : c \in SeqsUpTo(ContactLines, MaxContact),
            t \in {<<>>, <<SkillsLine("Skills", 3)>>}}

\* texts about the experience section: lines before the heading, the
\* heading or none, the body, and a section after it
ExperienceTexts ==
  {layout[1] \o body \o layout[2] :
     layout \in {<<<<>>, <<>>>>,
                 <<<<HeadingLine("Experience")>>, <<>>>>,
                 <<<<HeadingLine("Experience")>>, <<HeadingLine("Education"), RangeLine(1998, 2021)>>>>,
                 <<<<RangeLine(1998, 2021), HeadingLine("Experience")>>,
                   <<HeadingLine("Education"), YearsExpLine(12)>>>>},
     body \in SeqsUpTo(ExperienceLines, MaxBody)}

\* texts about the skills block: a skills line, the lines that follow it,
\* and a second skills line or none
SkillsTexts ==
  {pre \o <<SkillsLine(h, n)>> \o follow \o second :
     pre \in {<<>>, <<EmailLine("jane@gmail.com")>>},
     h \in SkillHeadings, n \in 1..MaxSkills,
     follow \in {<<>>, <<WordsLine(<<"REST API", "Microservices", "Kubernetes", "Node.js">>)>>,
                 <<HeadingLine("Experience"), OpenRangeLine(2018, "present")>>},
     second \in {<<>>, <<SkillsLine("Technologies", 2)>>}}

\* texts about the content: headings, keyword lines and achievement lines
ContentTexts == SeqsUpTo(ContentLines, MaxContent)

AchievementLines ==
  {BulletLine("Improved performance by 30%"), BulletLine("Led team and saved $20k"),
   BulletLine("Built app with 10k+ users"), BulletLine("Won 1st place in hackathon"),
   BulletLine("Reached accuracy of 95%"), BulletLine("Reduced load time by 40%"),
   BulletLine("Reached 10k+ users and saved $20k")}

\* texts about the quantified achievements
AchievementTexts == SeqsUpTo(AchievementLines, MaxContent)

ProjectLines ==
  {BulletLine("- Built chat server with Python sockets"), BulletLine("- Todo app"),
   BulletLine("Project: Inventory tracker using React"),
   BulletLine("1. Developed weather dashboard"),
   BulletLine("* Capstone project for inventory control"),
   BulletLine("- Group project on compiler design"),
   BulletLine("- Team project with REST API backend")}

\* texts about the projects section: the heading, its items, and a section
\* before or after it
ProjectTexts ==
  {layout[1] \o <<HeadingLine("Projects")>> \o body \o layout[2] :
     layout \in {<<<<>>, <<>>>>,
                 <<<<HeadingLine("Experience"), OpenRangeLine(2018, "present")>>, <<>>>>,
                 <<<<>>, <<HeadingLine("Education"),
                          BulletLine("- Built chat server with Python sockets")>>>>},
     body \in SeqsUpTo(ProjectLines, MaxProjects)}

\* the texts given to the parser: None is one of them, and so is the empty text
Texts ==
  ContactTexts \cup ExperienceTexts \cup SkillsTexts \cup ContentTexts \cup AchievementTexts
  \cup ProjectTexts \cup {NoneText}

\* lines that name keywords of a catalog role: its first core skills, its
\* core skills but the first and the fourth, its first framework, or all its
\* keywords
KeywordLines ==
  UNION {{WordsLine(Prefix(ATS_KEYWORDS[r].core_skills, a)) :
            a \in 1..Len(ATS_KEYWORDS[r].core_skills)}
         \cup {WordsLine(SubSeq(ATS_KEYWORDS[r].core_skills, 2, 3)
                         \o SubSeq(ATS_KEYWORDS[r].core_skills, 5,
                                   Len(ATS_KEYWORDS[r].core_skills)))}
         \cup {WordsLine(Prefix(ATS_KEYWORDS[r].frameworks, 1))}
         \cup {WordsLine(ATS_KEYWORDS[r].core_skills \o ATS_KEYWORDS[r].frameworks
                         \o ATS_KEYWORDS[r].methodologies \o ATS_KEYWORDS[r].platforms)} :
         r \in DOMAIN ATS_KEYWORDS}

\* a career: a skills block, an experience section and achievements
Career ==
  <<SkillsLine("Skills", 12), HeadingLine("Experience"), OpenRangeLine(2018, "present"),
    WordsLine(<<"Senior Developer", "Team Lead", "Intern">>),
    BulletLine("Improved performance by 30%"), BulletLine("Led team and saved $20k"),
    BulletLine("Built app with 10k+ users")>>

\* texts about the keywords of the roles, with and without contact lines
\* and a career; the empty text is one of them
FactTexts ==
  {contact \o keywords \o career :
     contact \in {<<>>, <<EmailLine("jane@gmail.com")>>, <<PhoneLine("555-123-4567")>>,
                  <<EmailLine("j.doe@corp.io"), PhoneLine("555-123-4567")>>},
     keywords \in {<<>>} \cup {<<l>> : l \in KeywordLines},
     career \in {<<>>, Career}}

\* target_role: absent, a catalog role by key and by name, and no catalog role
TargetRoles == {None, "software_developer", "Data Scientist", "Astronaut"}

\* a few of the texts, for the runs that interleave the steps of the calls
StepTexts ==
  {contact \o keywords \o career :
     contact \in {<<>>, <<EmailLine("jane@gmail.com")>>},
     keywords \in {<<>>, <<WordsLine(Prefix(ATS_KEYWORDS["software_developer"].core_skills, 5))>>,
                   <<WordsLine(ATS_KEYWORDS["data_scientist"].core_skills
                               \o ATS_KEYWORDS["data_scientist"].frameworks)>>},
     career \in {<<>>, Career}}

\* texts that mention education
EducationLines ==
  {HeadingLine("Education"), WordsLine(<<"Bachelor", "University", "degree">>),
   WordsLine(<<"Machine Learning">>), BulletLine("Improved performance by 30%")}

EducationTexts == SeqsUpTo(EducationLines, MaxContent)

CurrentYears == {2024, 2026}

\* two of the orders in which a process may iterate a set of the strings
\* the education patterns match
HashOrderA == <<"Education", "Bachelor", "University", "degree", "ba", "Ba", "ma", "Ma">>

HashOrderB == <<"Ma", "degree", "ba", "University", "Education", "ma", "Bachelor", "Ba">>

HashOrders == {HashOrderA, HashOrderB}

Idle == [parser |-> "ready", scorer |-> "off", analyzer |-> "off", matcher |-> "off"]

NoFrames == [scorer |-> EmptyDict, analyzer |-> EmptyDict, matcher |-> EmptyDict]

\* the components constructed, nothing called yet
Constructed ==
  /\ sections = EmptyDict
  /\ ats_keywords = ATS_KEYWORDS
  /\ industry_insights = INDUSTRY_INSIGHTS
  /\ frame = NoFrames
  /\ score_result = EmptyDict
  /\ analysis_result = EmptyDict
  /\ job_result = EmptyDict
  /\ pc = Idle
  /\ prev = EmptyDict

\* ------------------------------------------------------------------------
\* The calls
\* ------------------------------------------------------------------------
\* sections = parser.extract_comprehensive_sections(text)
Extract ==
  /\ pc.parser = "ready"
  /\ sections' = extract_comprehensive_sections(text, current_year, hash_order)
  /\ pc' = [pc EXCEPT !.parser = "done"]
  /\ UNCHANGED <<text, target_role, current_year, hash_order, ats_keywords,
                 industry_insights, frame, score_result, analysis_result, job_result, prev>>

\* score_result = scorer.calculate_comprehensive_ats_score(text, sections, target_role)
Score ==
  /\ pc.parser = "done"
  /\ pc.scorer = "off"
  /\ score_result' = calculate_comprehensive_ats_score(text, sections, target_role, ats_keywords)
  /\ pc' = [pc EXCEPT !.scorer = "done"]
  /\ UNCHANGED <<text, target_role, current_year, hash_order, sections, ats_keywords,
                 industry_insights, frame, analysis_result, job_result, prev>>

\* analysis_result = analyzer.analyze_comprehensive_strengths_weaknesses(text, sections, target_role)
Analyze ==
  /\ pc.parser = "done"
  /\ pc.analyzer = "off"
  /\ analysis_result' =
       analyze_comprehensive_strengths_weaknesses(text, sections, target_role, ats_keywords)
  /\ pc' = [pc EXCEPT !.analyzer = "done"]
  /\ UNCHANGED <<text, target_role, current_year, hash_order, sections, ats_keywords,
                 industry_insights, frame, score_result, job_result, prev>>

\* A faulty variant of Match, which takes the insights of the first role out
\* of the catalog it reads: C5_InputsUnchanged does not hold of it.
MatchConsumingInsights ==
  /\ pc.parser = "done"
  /\ pc.matcher = "off"
  /\ job_result' = get_comprehensive_job_analysis(text, sections, ats_keywords, industry_insights)
  /\ industry_insights' =
       [r \in DOMAIN industry_insights \ {"software_developer"} |-> industry_insights[r]]
  /\ pc' = [pc EXCEPT !.matcher = "done"]
  /\ UNCHANGED <<text, target_role, current_year, hash_order, sections, ats_keywords,
                 frame, score_result, analysis_result, prev>>

\* A faulty variant of Match, which recommends the target role in the roadmap
\* when it is a role of the catalog: C29_SameForEveryTarget does not hold of it.
MatchForTarget ==
  /\ pc.parser = "done"
  /\ pc.matcher = "off"
  /\ job_result' =
       LET analysis == get_comprehensive_job_analysis(text, sections, ats_keywords,
                                                      industry_insights)
       IN  IF Truthy(target_role) /\ RoleKey[target_role] \in DOMAIN ats_keywords
           THEN [analysis EXCEPT !.career_roadmap.recommended_target =
                                   RoleName[RoleKey[target_role]]]
           ELSE analysis
  /\ pc' = [pc EXCEPT !.matcher = "done"]
  /\ UNCHANGED <<text, target_role, current_year, hash_order, sections, ats_keywords,
                 industry_insights, frame, score_result, analysis_result, prev>>

\* job_result = matcher.get_comprehensive_job_analysis(text, sections, target_role)
Match ==
  /\ pc.parser = "done"
  /\ pc.matcher = "off"
  /\ job_result' = get_comprehensive_job_analysis(text, sections, ats_keywords, industry_insights)
  /\ pc' = [pc EXCEPT !.matcher = "done"]
  /\ UNCHANGED <<text, target_role, current_year, hash_order, sections, ats_keywords,
                 industry_insights, frame, score_result, analysis_result, prev>>

\* ------------------------------------------------------------------------
\* The parser, and the scorer on what it extracts
\* ------------------------------------------------------------------------
InitParse ==
  /\ text \in Texts
  /\ target_role = None
  /\ current_year \in CurrentYears
  /\ hash_order = HashOrderA
  /\ Constructed

NextParse == Extract \/ Score

SpecParse == InitParse /\ [][NextParse]_vars

\* ------------------------------------------------------------------------
\* The three consumers of a fact model, called in any order
\* ------------------------------------------------------------------------
InitFacts ==
  /\ text \in FactTexts
  /\ target_role \in TargetRoles
  /\ current_year = 2024
  /\ hash_order = HashOrderA
  /\ Constructed

NextFacts == Extract \/ Score \/ Analyze \/ Match

SpecFacts == InitFacts /\ [][NextFacts]_vars

\* ------------------------------------------------------------------------
\* The three consumers, their steps interleaved
\* ------------------------------------------------------------------------
\* the scorer builds score_breakdown
ScoreBreakdown ==
  /\ pc.parser = "done"
  /\ pc.scorer = "off"
  /\ frame' = [frame EXCEPT !.scorer =
                 [score_breakdown |->
                    ScoreCategories(text, sections, target_role, ats_keywords)]]
  /\ pc' = [pc EXCEPT !.scorer = "breakdown"]
  /\ UNCHANGED <<text, target_role, current_year, hash_order, sections, ats_keywords,
                 industry_insights, score_result, analysis_result, job_result, prev>>

\* the scorer sums the categories, adds the overall assessment and returns
ScoreTotal ==
  /\ pc.scorer = "breakdown"
  /\ LET score_breakdown == frame.scorer.score_breakdown
         total_score == SumOver(score_breakdown, "score")
         max_possible == SumOver(score_breakdown, "max")
     IN  score_result' =
           <<total_score, max_possible,
             Update(score_breakdown,
                    [overall_assessment |-> _generate_overall_assessment(total_score, max_possible)])>>
  /\ frame' = [frame EXCEPT !.scorer = EmptyDict]
  /\ pc' = [pc EXCEPT !.scorer = "done"]
  /\ UNCHANGED <<text, target_role, current_year, hash_order, sections, ats_keywords,
                 industry_insights, analysis_result, job_result, prev>>

\* the analyzer collects strengths_detailed
AnalyzeStrengths ==
  /\ pc.parser = "done"
  /\ pc.analyzer = "off"
  /\ frame' = [frame EXCEPT !.analyzer =
                 [strengths_detailed |-> Strengths(text, sections, target_role, ats_keywords)]]
  /\ pc' = [pc EXCEPT !.analyzer = "strengths"]
  /\ UNCHANGED <<text, target_role, current_year, hash_order, sections, ats_keywords,
                 industry_insights, score_result, analysis_result, job_result, prev>>

\* A faulty variant of AnalyzeWeaknesses, which leaves the contact findings
\* out once the scorer has returned: C6_SameAsAlone does not hold of it.
AnalyzeWeaknessesAfterScore ==
  /\ pc.analyzer = "strengths"
  /\ analysis_result' =
       <<frame.analyzer.strengths_detailed,
         IF score_result = EmptyDict
         THEN Weaknesses(text, sections, target_role, ats_keywords)
         ELSE _analyze_technical_weaknesses(text, sections, target_role, ats_keywords)>>
  /\ frame' = [frame EXCEPT !.analyzer = EmptyDict]
  /\ pc' = [pc EXCEPT !.analyzer = "done"]
  /\ UNCHANGED <<text, target_role, current_year, hash_order, sections, ats_keywords,
                 industry_insights, score_result, job_result, prev>>

\* the analyzer collects weaknesses_detailed and returns
AnalyzeWeaknesses ==
  /\ pc.analyzer = "strengths"
  /\ analysis_result' = <<frame.analyzer.strengths_detailed,
                          Weaknesses(text, sections, target_role, ats_keywords)>>
  /\ frame' = [frame EXCEPT !.analyzer = EmptyDict]
  /\ pc' = [pc EXCEPT !.analyzer = "done"]
  /\ UNCHANGED <<text, target_role, current_year, hash_order, sections, ats_keywords,
                 industry_insights, score_result, job_result, prev>>

\* the matcher computes role_compatibility
MatchCompatibility ==
  /\ pc.parser = "done"
  /\ pc.matcher = "off"
  /\ frame' = [frame EXCEPT !.matcher =
                 [role_compatibility |-> _calculate_role_compatibility(text, ats_keywords)]]
  /\ pc' = [pc EXCEPT !.matcher = "compatibility"]
  /\ UNCHANGED <<text, target_role, current_year, hash_order, sections, ats_keywords,
                 industry_insights, score_result, analysis_result, job_result, prev>>

\* the matcher writes detailed_suggestions
MatchSuggestions ==
  /\ pc.matcher = "compatibility"
  /\ frame' = [frame EXCEPT !.matcher =
                 [detailed_suggestions |->
                    _generate_detailed_role_suggestions(frame.matcher.role_compatibility,
                                                        sections, industry_insights)]]
  /\ pc' = [pc EXCEPT !.matcher = "suggestions"]
  /\ UNCHANGED <<text, target_role, current_year, hash_order, sections, ats_keywords,
                 industry_insights, score_result, analysis_result, job_result, prev>>

\* the matcher adds the roadmap, the market analysis and the readiness, and returns
MatchReturn ==
  /\ pc.matcher = "suggestions"
  /\ LET detailed_suggestions == frame.matcher.detailed_suggestions
     IN  job_result' =
           [role_suggestions |-> detailed_suggestions,
            career_roadmap |-> _create_career_roadmap(sections, detailed_suggestions),
            market_insights |-> _generate_market_analysis(detailed_suggestions, sections),
            overall_readiness |-> _assess_overall_job_readiness(sections)]
  /\ frame' = [frame EXCEPT !.matcher = EmptyDict]
  /\ pc' = [pc EXCEPT !.matcher = "done"]
  /\ UNCHANGED <<text, target_role, current_year, hash_order, sections, ats_keywords,
                 industry_insights, score_result, analysis_result, prev>>

InitSteps ==
  /\ text \in StepTexts
  /\ target_role \in {None, "software_developer"}
  /\ current_year = 2024
  /\ hash_order = HashOrderA
  /\ Constructed

NextSteps ==
  \/ Extract
  \/ ScoreBreakdown \/ ScoreTotal
  \/ AnalyzeStrengths \/ AnalyzeWeaknesses
  \/ MatchCompatibility \/ MatchSuggestions \/ MatchReturn

SpecSteps == InitSteps /\ [][NextSteps]_vars

\* ------------------------------------------------------------------------
\* The pipeline run again, in the same process or in a fresh one
\* ------------------------------------------------------------------------
AllDone == \A c \in DOMAIN pc : pc[c] = "done"

\* what a run of the pipeline returned
Results ==
  [sections |-> sections, score_result |-> score_result,
   analysis_result |-> analysis_result, job_result |-> job_result]

\* the same text and target_role again, in the same process: the same
\* component instances or fresh ones
Rerun ==
  /\ AllDone
  /\ prev' = Results
  /\ sections' = EmptyDict
  /\ score_result' = EmptyDict
  /\ analysis_result' = EmptyDict
  /\ job_result' = EmptyDict
  /\ pc' = Idle
  /\ UNCHANGED <<text, target_role, current_year, hash_order, ats_keywords,
                 industry_insights, frame>>

\* the same text and target_role again, in a fresh process in the same
\* year: the string hashes of the process are drawn anew
Restart ==
  /\ AllDone
  /\ prev' = Results
  /\ hash_order' \in HashOrders
  /\ sections' = EmptyDict
  /\ score_result' = EmptyDict
  /\ analysis_result' = EmptyDict
  /\ job_result' = EmptyDict
  /\ pc' = Idle
  /\ UNCHANGED <<text, target_role, current_year, ats_keywords, industry_insights, frame>>

InitRerun ==
  /\ text \in EducationTexts
  /\ target_role \in {None, "Data Scientist"}
  /\ current_year \in CurrentYears
  /\ hash_order \in HashOrders
  /\ Constructed

NextRerun == Extract \/ Score \/ Analyze \/ Match \/ Rerun \/ Restart

SpecRerun == InitRerun /\ [][NextRerun]_vars

\* ------------------------------------------------------------------------
\* The scorer on fact models given directly
\* ------------------------------------------------------------------------
\* the experience fields of a fact model
ExperienceFacts ==
  [experience_years : 0..MaxYears, position_count : 0..3,
   experience_quality : {0, 30, 50, 70}, has_leadership : BOOLEAN, has_internship : BOOLEAN]

\* a text with a skills block and all the keywords of a role
KeywordText ==
  <<SkillsLine("Skills", 13),
    WordsLine(ATS_KEYWORDS["software_developer"].core_skills
              \o ATS_KEYWORDS["software_developer"].frameworks
              \o ATS_KEYWORDS["software_developer"].methodologies)>>

\* the other fields of a fact model that earns the maximum of the other categories
FullMarks ==
  Update([email |-> "jane@gmail.com", phone |-> "5551234567", phone_count |-> 1,
          quantified_achievements |-> 5, achievement_diversity |-> 3,
          achievement_examples |-> <<"Improved performance by 30%", "$20k", "10k+ users">>,
          word_count |-> 500, action_verb_count |-> 10, section_headers |-> 4,
          has_education |-> TRUE],
         _extract_skills_analysis(KeywordText))

\* the parser is not called: the fact model is given
InitScorer ==
  /\ text \in {<<>>, KeywordText}
  /\ target_role = IF text = <<>> THEN None ELSE "software_developer"
  /\ current_year = 2024
  /\ hash_order = HashOrderA
  /\ sections \in {Update(rest, experience) :
                     rest \in {EmptyDict, FullMarks}, experience \in ExperienceFacts}
  /\ ats_keywords = ATS_KEYWORDS
  /\ industry_insights = INDUSTRY_INSIGHTS
  /\ frame = NoFrames
  /\ score_result = EmptyDict
  /\ analysis_result = EmptyDict
  /\ job_result = EmptyDict
  /\ pc = [Idle EXCEPT !.parser = "done"]
  /\ prev = EmptyDict

NextScorer == Score

SpecScorer == InitScorer /\ [][NextScorer]_vars


\* ------------------------------------------------------------------------
\* The analyzer on fact models given directly
\* ------------------------------------------------------------------------
\* one indicator of a fact model, at the values around the thresholds of the
\* strengths and of the weaknesses, or none
IndicatorFacts ==
  {[email |-> e, phone |-> p] : e \in {None, "jane@gmail.com"}, p \in {None, "5551234567"}}
  \cup {[skills_count |-> n] : n \in {0, 5, 6, 9, 10, 15}}
  \cup {[technical_depth_score |-> n] : n \in {0, 2, 3, 4, 5, 10}}
  \cup {[experience_years |-> n] : n \in 0..MaxYears}
  \cup {[experience_quality |-> n] : n \in {0, 29, 30, 49, 50, 70}}
  \cup {[quantified_achievements |-> n] : n \in 0..5}
  \cup {[word_count |-> n] : n \in {0, 299, 300, 399, 400, 800, 801, 1200, 1201}}
  \cup {[action_verb_count |-> n] : n \in {0, 3, 4, 7, 8}}
  \cup {EmptyDict}

\* a fact model that earns the maximum of every category
Seasoned ==
  Update(FullMarks, [experience_years |-> 5, position_count |-> 3, experience_quality |-> 70,
                     has_leadership |-> TRUE, has_internship |-> FALSE])

\* the parser is not called: the fact model is given, an empty one or a full
\* one but for one indicator, with every role of the catalog as the target;
\* the empty and the full fact model come with every text about the keywords
\* of the roles
InitAnalyzer ==
  /\ text \in {<<>>} \cup {<<l>> : l \in KeywordLines}
  /\ target_role \in TargetRoles \cup DOMAIN ATS_KEYWORDS
  /\ current_year = 2024
  /\ hash_order = HashOrderA
  /\ sections \in {Update(rest, indicator) :
                     rest \in {EmptyDict, Seasoned}, indicator \in IndicatorFacts}
  /\ (text \in {<<>>, <<WordsLine(ATS_KEYWORDS["software_developer"].core_skills)>>}
      \/ sections \in {EmptyDict, Seasoned})
  /\ ats_keywords = ATS_KEYWORDS
  /\ industry_insights = INDUSTRY_INSIGHTS
  /\ frame = NoFrames
  /\ score_result = EmptyDict
  /\ analysis_result = EmptyDict
  /\ job_result = EmptyDict
  /\ pc = [Idle EXCEPT !.parser = "done"]
  /\ prev = EmptyDict

NextAnalyzer == Analyze

SpecAnalyzer == InitAnalyzer /\ [][NextAnalyzer]_vars

\* ------------------------------------------------------------------------
\* The pipeline run again on the same text for another target role
\* ------------------------------------------------------------------------
\* the same text again with another target_role, the run before kept with
\* its target_role
Retarget ==
  /\ AllDone
  /\ prev' = Update(Results, [target_role |-> target_role])
  /\ target_role' \in TargetRoles \ {target_role}
  /\ sections' = EmptyDict
  /\ score_result' = EmptyDict
  /\ analysis_result' = EmptyDict
  /\ job_result' = EmptyDict
  /\ pc' = Idle
  /\ UNCHANGED <<text, current_year, hash_order, ats_keywords, industry_insights, frame>>

InitRetarget ==
  /\ text \in StepTexts
  /\ target_role \in TargetRoles
  /\ current_year = 2024
  /\ hash_order = HashOrderA
  /\ Constructed

NextRetarget == Extract \/ Score \/ Analyze \/ Match \/ Retarget

SpecRetarget == InitRetarget /\ [][NextRetarget]_vars

\* ------------------------------------------------------------------------
\* Properties
\* ------------------------------------------------------------------------
Largest(S) == CHOOSE x \in S : \A y \in S : y <= x

Smallest(S) == CHOOSE x \in S : \A y \in S : x <= y

\* target_role names a role of the catalog
TargetInCatalog == Truthy(target_role) /\ RoleKey[target_role] \in DOMAIN ATS_KEYWORDS

\* the core skills of the target role found in the text
CoreSkillsFound ==
  {k \in Range(ATS_KEYWORDS[RoleKey[target_role]].core_skills) : Contains(text, Lower[k])}

\* C1: in the breakdown the scorer returns, each of the five categories has
\* 0 <= score <= max with max 15, 30, 25, 20 and 10 points; the returned
\* total is the sum of the five category scores; the returned max is 100.
C1_ScoresWithinMax ==
  pc.scorer = "done" =>
    LET b == score_result[3]
    IN  /\ b.contact_info.max = Pts(15)
        /\ b.technical_skills.max = Pts(30)
        /\ b.experience_quality.max = Pts(25)
        /\ b.quantified_achievements.max = Pts(20)
        /\ b.content_optimization.max = Pts(10)
        /\ \A c \in {"contact_info", "technical_skills", "experience_quality",
                     "quantified_achievements", "content_optimization"} :
             0 <= b[c].score /\ b[c].score <= b[c].max
        /\ score_result[1] = b.contact_info.score + b.technical_skills.score
                             + b.experience_quality.score + b.quantified_achievements.score
                             + b.content_optimization.score
        /\ score_result[2] = Pts(100)

\* the scorer has returned for a catalog role whose technical skills reach the cap
C1_Witness ==
  /\ pc.scorer = "done"
  /\ TargetInCatalog
  /\ score_result[3].technical_skills.score = Pts(30)
  /\ score_result[3].contact_info.score = Pts(15)

\* (a) the largest end - start over the year ranges of the experience
\* section with end >= start, 'present' and 'current' read as the current year
RangeEstimate ==
  LET ranges == {l \in Range(ExperienceText(text)) : l.kind = "range"}
      spans == {(IF l.open \in {"present", "current"} THEN current_year ELSE l.end) - l.start :
                  l \in ranges}
  IN  Largest({0} \cup {d \in spans : d >= 0})

\* (b) the number of the first 'N years of experience' phrase of the text
MentionEstimate ==
  LET mentions == {i \in 1..Len(text) : text[i].kind = "years_exp"}
  IN  IF mentions = {} THEN 0 ELSE text[Smallest(mentions)].n

\* (c) the span between the smallest and the largest year in 2000..current
\* year of the experience section
SpanEstimate ==
  LET years == {y \in Range(AllYears(ExperienceText(text))) : 2000 <= y /\ y <= current_year}
  IN  IF years = {} THEN 0 ELSE Largest(years) - Smallest(years)

\* C2: experience_years is never negative and is the maximum of the three
\* estimators (a), (b) and (c); an estimator that finds nothing counts 0,
\* and the estimates are not averaged.
C2_ExperienceIsMaximum ==
  (pc.parser = "done" /\ sections # EmptyDict) =>
    /\ sections.experience_years >= 0
    /\ sections.experience_years = Largest({RangeEstimate, MentionEstimate, SpanEstimate})

\* extracted from a text where the three estimators differ and the middle
\* one is not the average of the other two
C2_Witness ==
  /\ pc.parser = "done"
  /\ sections # EmptyDict
  /\ SpanEstimate > 0
  /\ RangeEstimate > SpanEstimate
  /\ MentionEstimate > RangeEstimate
  /\ sections.experience_years = MentionEstimate

\* every keyword of role r is in the text
AllKeywordsIn(r) ==
  \A tier \in {"core_skills", "frameworks", "methodologies", "platforms"} :
    \A k \in Range(ATS_KEYWORDS[r][tier]) : Contains(text, Lower[k])

\* C3: the compatibility percentage of every catalog role lies in [0,100],
\* and is exactly 100 (shown as "100.0%") when the text holds every keyword
\* of the role.
C3_CompatibilityPercentage ==
  pc.matcher = "done" =>
    /\ \A r \in DOMAIN ATS_KEYWORDS :
         LET score == _calculate_role_compatibility(text, ats_keywords)[r].score
         IN  /\ 0 <= score.total /\ score.total <= score.max /\ score.max > 0
             /\ AllKeywordsIn(r) => score.total = score.max
    /\ \A i \in 1..Len(job_result.role_suggestions) :
         LET s == job_result.role_suggestions[i]
         IN  /\ 0 <= s.compatibility_float /\ s.compatibility_float <= 1000
             /\ (\E r \in DOMAIN ATS_KEYWORDS : RoleName[r] = s.role /\ AllKeywordsIn(r))
                  => s.compatibility_score = "100.0%"

\* matched a text that holds every keyword of data_scientist and not every
\* keyword of another role
C3_Witness ==
  /\ pc.matcher = "done"
  /\ AllKeywordsIn("data_scientist")
  /\ ~AllKeywordsIn("ai_engineer")
  /\ job_result.role_suggestions[1].role = "Data Scientist"
  /\ job_result.role_suggestions[2].compatibility_float < 1000

\* C4: the pipeline run again on the same text and target_role returns what
\* the run before returned, in the same process or in a fresh one.
C4_RerunIdentical == (AllDone /\ prev # EmptyDict) => Results = prev

\* C5: the consumers only read: once extracted, no call changes the fact
\* model or the catalogs ATS_KEYWORDS and INDUSTRY_INSIGHTS.
C5_InputsUnchanged ==
  [][pc.parser = "done" =>
       /\ sections' = sections
       /\ ats_keywords' = ats_keywords /\ ats_keywords = ATS_KEYWORDS
       /\ industry_insights' = industry_insights /\ industry_insights = INDUSTRY_INSIGHTS]_vars

\* the three consumers have returned on a fact model of a text
C5_Witness ==
  /\ AllDone
  /\ sections # EmptyDict
  /\ job_result.role_suggestions[1].compatibility_float > 0

\* C6: however the steps of the three calls interleave, each call returns
\* what it returns when it runs alone on the text and the fact model.
C6_SameAsAlone ==
  /\ pc.scorer = "done" =>
       score_result = calculate_comprehensive_ats_score(text, sections, target_role, ATS_KEYWORDS)
  /\ pc.analyzer = "done" =>
       analysis_result =
         analyze_comprehensive_strengths_weaknesses(text, sections, target_role, ATS_KEYWORDS)
  /\ pc.matcher = "done" =>
       job_result = get_comprehensive_job_analysis(text, sections, ATS_KEYWORDS, INDUSTRY_INSIGHTS)
  /\ pc.parser = "done" => sections = extract_comprehensive_sections(text, current_year, hash_order)

\* the analyzer has returned after the scorer, while the matcher is in its call
C6_Witness ==
  /\ pc.scorer = "done"
  /\ pc.analyzer = "done"
  /\ pc.matcher = "suggestions"
  /\ analysis_result[2] # <<>>
  /\ sections # EmptyDict

\* the fact model has neither an email nor a phone
NoContact == ~Truthy(Get(sections, "email", None)) /\ ~Truthy(Get(sections, "phone", None))

\* the findings of the missing email among the weaknesses
MissingEmailFindings ==
  {i \in 1..Len(analysis_result[2]) :
     analysis_result[2][i].weakness = "Missing Professional Email Address"}

OnlyOpenRange2018 ==
  /\ \E i \in 1..Len(text) : text[i] = OpenRangeLine(2018, "present")
  /\ \A i \in 1..Len(text) :
       text[i].kind \in {"range", "years_exp", "year"} => text[i] = OpenRangeLine(2018, "present")
  /\ Cardinality({i \in 1..Len(text) : text[i].kind = "range"}) = 1

\* C8: for a text whose only experience evidence is the range
\* "2018 - present", with current year 2024, experience_years is 6 and
\* experience_level is "Senior Level".
C8_SixYearsSeniorLevel ==
  (pc.parser = "done" /\ current_year = 2024 /\ OnlyOpenRange2018) =>
    /\ sections.experience_years = 6
    /\ sections.experience_level = "Senior Level"

\* extracted, in 2024, from a text under the heading Experience
C8_Witness ==
  /\ pc.parser = "done"
  /\ current_year = 2024
  /\ OnlyOpenRange2018
  /\ text[1] = HeadingLine("Experience")

\* C8 as first stated: experience_level is "Mid Level".
C8_SixYearsMidLevel ==
  (pc.parser = "done" /\ current_year = 2024 /\ OnlyOpenRange2018) =>
    /\ sections.experience_years = 6
    /\ sections.experience_level = "Mid Level"

\* the text ends with its one skills block, of exactly 12 tokens
TwelveSkills ==
  /\ text # <<>>
  /\ text[Len(text)].kind = "skills"
  /\ text[Len(text)].n = 12
  /\ Cardinality({i \in 1..Len(text) : text[i].kind = "skills"}) = 1

\* C9: for a skills block of exactly 12 comma-separated tokens, skills_count
\* is 12 and the base component of Technical Skills is 10 points.
C9_TwelveSkillsCounted ==
  (pc.scorer = "done" /\ TwelveSkills) =>
    /\ sections.skills_count = 12
    /\ BaseScore(sections).score = Pts(10)

\* C10: when target_role names a catalog role, the core-skill part of the
\* role bonus is min(15, 2 x the number of the role's core skills found in
\* the text), so Technical Skills is the capped sum of the base, this part,
\* the framework and methodology parts and the diversity bonus; for
\* software_developer with 5 of its 8 core skills it is 10.
C10_CoreSkillScore ==
  (pc.scorer = "done" /\ TargetInCatalog) =>
    LET role_data == ATS_KEYWORDS[RoleKey[target_role]]
        core == Min2(Pts(15), Pts(2 * Cardinality(CoreSkillsFound)))
        others == FrameworkScore(Matched(role_data.frameworks, text))
                  + MethodScore(Matched(role_data.methodologies, text))
    IN  /\ _calculate_role_specific_score(text, role_data, target_role).score = core + others
        /\ score_result[3].technical_skills.score =
             Min2(Pts(30),
                  BaseScore(sections).score + core + others
                  + _assess_skill_diversity(Get(sections, "skill_categories", EmptyDict)).score)
        /\ (RoleKey[target_role] = "software_developer" /\ Cardinality(CoreSkillsFound) = 5)
             => core = Pts(10)

\* scored for software_developer a text with 5 of its 8 core skills, the
\* sum under the cap
C10_Witness ==
  /\ pc.scorer = "done"
  /\ target_role = "software_developer"
  /\ Cardinality(CoreSkillsFound) = 5
  /\ Len(ATS_KEYWORDS["software_developer"].core_skills) = 8
  /\ score_result[3].technical_skills.score = BaseScore(sections).score + Pts(10)

\* the achievement categories of the fact model that hold a match
NonEmptyAchievementCategories ==
  {c \in DOMAIN sections.achievement_categories : sections.achievement_categories[c] # <<>>}

\* C11: achievement_diversity is the number of achievement categories whose
\* list is not empty, and is at most 5.
C11_DiversityCountsCategories ==
  (pc.parser = "done" /\ sections # EmptyDict) =>
    /\ sections.achievement_diversity = Cardinality(NonEmptyAchievementCategories)
    /\ sections.achievement_diversity <= 5

\* extracted from a text with two matches, both of one category
C11_Witness ==
  /\ pc.parser = "done"
  /\ sections # EmptyDict
  /\ sections.quantified_achievements = 2
  /\ Len(sections.achievement_categories["performance_metrics"]) = 2
  /\ sections.achievement_diversity = 1

\* C12: extraction of a text that is empty or None returns the empty fact
\* model, and does not raise.
C12_NoTextNoFacts ==
  (pc.parser = "done" /\ (text = <<>> \/ text = NoneText)) => sections = EmptyDict

\* extracted from None
C12_Witness ==
  /\ pc.parser = "done"
  /\ text = NoneText
  /\ sections = EmptyDict

\* C13: scoring does not raise: when the text was empty or None and the
\* fact model is the empty one the extractor returned, every category
\* scores 0 and the total is 0 of 100.
C13_ScoringNeverRaises ==
  (pc.scorer = "done" /\ (text = <<>> \/ text = NoneText)) =>
    /\ score_result # Raised("AttributeError")
    /\ score_result[1] = 0
    /\ score_result[2] = Pts(100)
    /\ \A c \in Range(CategoryOrder) : score_result[3][c].score = 0

\* C14: every category score of the breakdown and the returned total are
\* integers: an even number of half points.
C14_ScoresAreIntegers ==
  pc.scorer = "done" =>
    /\ score_result[1] % 2 = 0
    /\ \A c \in Range(CategoryOrder) : score_result[3][c].score % 2 = 0

\* the fix_priority sentences that begin with CRITICAL
CriticalPriorities ==
  {"CRITICAL - Must be fixed immediately before any job applications",
   "CRITICAL - Essential for technical role applications"}

\* the fix_priority sentences that begin with HIGH
HighPriorities ==
  {"HIGH - Important for professional accessibility",
   "HIGH - Critical for technical role competitiveness",
   "HIGH - Critical for professional role applications",
   "HIGH - Critical for professional presentation",
   "HIGH - Critical for demonstrating value delivery"}
  \cup {"HIGH - Essential for " \o t \o " role targeting" : t \in TargetRoles \ {None}}

\* the fix_priority sentences that begin with MEDIUM
MediumPriorities ==
  {"MEDIUM - Important for senior role positioning",
   "MEDIUM - Important for demonstrating practical skills",
   "MEDIUM - Important for competitive positioning",
   "MEDIUM - Important for professional presentation",
   "MEDIUM - Important for optimal ATS performance",
   "MEDIUM - Important for professional language quality"}

\* the findings of the missing phone among the weaknesses
MissingPhoneFindings ==
  {i \in 1..Len(analysis_result[2]) :
     analysis_result[2][i].weakness = "Missing Phone Number Contact Information"}

StrengthsByCategory ==
  <<_analyze_experience_strengths(sections),
    _analyze_technical_strengths(text, sections, target_role, ATS_KEYWORDS),
    _analyze_achievement_strengths(sections),
    _analyze_content_quality_strengths(sections),
    _analyze_professional_presentation_strengths(sections)>>

\* the weaknesses of each category, in the order contact, technical,
\* experience, achievements, structure
WeaknessesByCategory ==
  <<_analyze_contact_weaknesses(sections),
    _analyze_technical_weaknesses(text, sections, target_role, ATS_KEYWORDS),
    _analyze_experience_weaknesses(sections),
    _analyze_achievement_weaknesses(sections),
    _analyze_content_structure_weaknesses(sections)>>

\* findings, of Len(parts) categories, is the findings of the categories one
\* category after the other: the k-th finding of category c is at position
\* (number of findings of the categories before c) + k, and there is no other
InCategoryOrder(findings, parts) ==
  LET before(c) == SumSeq([d \in 1..(c - 1) |-> Len(parts[d])])
  IN  /\ Len(findings) = before(Len(parts) + 1)
      /\ \A c \in 1..Len(parts) : \A k \in 1..Len(parts[c]) :
           findings[before(c) + k] = parts[c][k]

\* C16: the strengths the analyzer returns are the findings of the
\* categories experience, technical, achievements, content, presentation in
\* that order, and the weaknesses those of contact, technical, experience,
\* achievements, structure: none dropped, merged or out of its place.
C16_CategoryOrder ==
  pc.analyzer = "done" =>
    /\ InCategoryOrder(analysis_result[1], StrengthsByCategory)
    /\ InCategoryOrder(analysis_result[2], WeaknessesByCategory)

\* analyzed a fact model with strengths of three categories or more and
\* weaknesses of contact, technical and a later category
C16_Witness ==
  /\ pc.analyzer = "done"
  /\ Cardinality({c \in 1..5 : StrengthsByCategory[c] # <<>>}) >= 3
  /\ WeaknessesByCategory[1] # <<>>
  /\ WeaknessesByCategory[2] # <<>>
  /\ \E c \in 3..5 : WeaknessesByCategory[c] # <<>>

\* the catalog roles that role_suggestions leaves out
RolesLeftOut ==
  {r \in DOMAIN ats_keywords :
     \A i \in 1..Len(job_result.role_suggestions) :
       job_result.role_suggestions[i].role # RoleName[r]}

\* C17: role_suggestions lists roles in non-increasing order of their
\* compatibility percentage, holds exactly min(6, number of catalog roles)
\* entries, each of another catalog role, and none of them has a lower
\* percentage than a catalog role left out.
C17_RankedSuggestions ==
  pc.matcher = "done" =>
    LET suggestions == job_result.role_suggestions
        compatibility == _calculate_role_compatibility(text, ats_keywords)
    IN  /\ Len(suggestions) = Min2(6, Cardinality(DOMAIN ats_keywords))
        /\ \A i, j \in 1..Len(suggestions) :
             i < j => suggestions[i].compatibility_float >= suggestions[j].compatibility_float
        /\ \A i \in 1..Len(suggestions) : \E r \in DOMAIN ats_keywords :
             /\ suggestions[i].role = RoleName[r]
             /\ suggestions[i].compatibility_score = Format1f(compatibility[r].score)
        /\ Cardinality({suggestions[i].role : i \in 1..Len(suggestions)}) = Len(suggestions)
        /\ \A r \in RolesLeftOut : \A i \in 1..Len(suggestions) :
             suggestions[i].compatibility_float >= Tenths(compatibility[r].score)

\* matched a text for which the last role of the catalog ranks first and
\* the first role of the catalog ranks below it
C17_Witness ==
  /\ pc.matcher = "done"
  /\ job_result.role_suggestions[1].role = RoleName[RoleOrder[Len(RoleOrder)]]
  /\ \E i \in 2..Len(job_result.role_suggestions) :
       /\ job_result.role_suggestions[i].role = RoleName[RoleOrder[1]]
       /\ job_result.role_suggestions[i].compatibility_float
            < job_result.role_suggestions[1].compatibility_float

\* C18: the roadmap's recommended_target, development_timeline and
\* skill_development_plan are those of the first role suggestion, and its
\* recommended_target names no other role; for no suggestions the roadmap
\* is a message and nothing else.
C18_RoadmapOfTopRole ==
  pc.matcher = "done" =>
    LET suggestions == job_result.role_suggestions
        roadmap == job_result.career_roadmap
    IN  /\ roadmap.recommended_target
             = suggestions[1].role \o " (" \o suggestions[1].fit_level \o ")"
        /\ roadmap.development_timeline = suggestions[1].readiness_timeline
        /\ roadmap.skill_development_plan
             = suggestions[1].development_plan.skill_development_priority
        /\ \A i \in 2..Len(suggestions) :
             roadmap.recommended_target
               # suggestions[i].role \o " (" \o suggestions[i].fit_level \o ")"
        /\ DOMAIN _create_career_roadmap(sections, <<>>) = {"message"}

\* matched a text whose top role differs from the last role in fit level,
\* timeline and skill plan
C18_Witness ==
  /\ pc.matcher = "done"
  /\ LET suggestions == job_result.role_suggestions
         last == suggestions[Len(suggestions)]
     IN  /\ suggestions[1].fit_level # last.fit_level
         /\ suggestions[1].readiness_timeline # last.readiness_timeline
         /\ suggestions[1].development_plan.skill_development_priority
              # last.development_plan.skill_development_priority
         /\ job_result.career_roadmap.development_timeline = suggestions[1].readiness_timeline

\* the phone candidates of the text whose normalized form is long enough,
\* in the order the patterns find them
ValidPhoneCandidates ==
  SelectSeq(FindAll(PhoneMatches, 4, text), LAMBDA m : CleanPhone[m] # None)

\* C19: phone candidates whose normalized form is too short are discarded:
\* phone_numbers and phone_count cover the valid candidates only, and phone
\* is the first valid candidate whenever there is one.
C19_OnlyValidPhones ==
  (pc.parser = "done" /\ sections # EmptyDict) =>
    /\ sections.phone_numbers
         = [i \in 1..Len(ValidPhoneCandidates) |-> CleanPhone[ValidPhoneCandidates[i]]]
    /\ sections.phone_count = Len(ValidPhoneCandidates)
    /\ ValidPhoneCandidates # <<>> => sections.phone = CleanPhone[ValidPhoneCandidates[1]]

\* the five achievement categories in the order of the if / elif chain
AchievementCategoryOrder ==
  <<"performance_metrics", "financial_impact", "scale_metrics", "time_improvements",
    "quality_metrics">>

\* C20: each quantified-achievement match is in exactly one of the five
\* category lists, that of the first category in the order performance,
\* financial, scale, time, quality whose trigger words it contains, so the
\* five lists together hold exactly quantified_achievements matches.
C20_EveryMatchInOneCategory ==
  (pc.parser = "done" /\ sections # EmptyDict) =>
    LET matches == FindAll(AchievementMatches, 6, text)
        lists == sections.achievement_categories
    IN  /\ \A c \in Range(AchievementCategoryOrder) :
             lists[c] = SelectSeq(matches, LAMBDA m : AchievementCategory(m) = c)
        /\ SumSeq([i \in 1..Len(AchievementCategoryOrder) |->
                     Len(lists[AchievementCategoryOrder[i]])])
             = sections.quantified_achievements

\* ------------------------------------------------------------------------
\* C21: every capped list of the fact model (individual_skills of at most
\* 20, project_descriptions of at most 5, achievement_examples of at most 8,
\* education_keywords of at most 10) is the prefix, in the order of first
\* occurrence, of the full list of the items found.
\* ------------------------------------------------------------------------
C21_CappedListsArePrefixes ==
  sections # EmptyDict =>
    /\ sections.individual_skills = Prefix(SplitSkills(AllSkillsText(text)), 20)
    /\ sections.project_descriptions =
         Prefix(FirstSeen(SelectSeq(IF ProjectStart(text) = 0 THEN <<>>
                                    ELSE FindAll(ProjectMatches, 3, ProjectText(text)),
                                    LAMBDA match : DescriptionLen[match] > 10)), 5)
    /\ sections.achievement_examples = Prefix(FindAll(AchievementMatches, 6, text), 8)
    /\ sections.education_keywords = Prefix(FirstSeen(FindAll(EduMatches, 4, text)), 10)

\* the project lines extracted from the text: the matches of the three
\* patterns of more than 10 characters, a repeated line once for each match
ExtractedProjects ==
  SelectSeq(IF ProjectStart(text) = 0 THEN <<>>
            ELSE FindAll(ProjectMatches, 3, ProjectText(text)),
            LAMBDA match : DescriptionLen[match] > 10)

\* ------------------------------------------------------------------------
\* C22 (as amended): project_descriptions holds at most 5 descriptions
\* without duplicates in first-seen order; project_count is the number of
\* distinct extracted descriptions, not capped at 5, a repeated description
\* counted once; average_project_quality is the mean over every extracted
\* line, the repeated and the unstored ones included.
\* ------------------------------------------------------------------------
C22_ProjectCounts ==
  (pc.parser = "done" /\ sections # EmptyDict) =>
    LET stored == sections.project_descriptions
    IN  /\ Len(stored) <= 5
        /\ \A i, j \in 1..Len(stored) : stored[i] = stored[j] => i = j
        /\ stored = Prefix(FirstSeen(ExtractedProjects), 5)
        /\ sections.project_count = Cardinality(Range(ExtractedProjects))
        /\ sections.average_project_quality =
             IF ExtractedProjects = <<>> THEN Quotient(0, 1)
             ELSE Quotient(SumSeq([i \in 1..Len(ExtractedProjects) |->
                                     ProjectQuality[ExtractedProjects[i]]]),
                           Len(ExtractedProjects))

\* a description is extracted twice, and the mean over all the extracted
\* lines differs from the mean over the distinct ones
C22_Witness ==
  /\ pc.parser = "done"
  /\ sections # EmptyDict
  /\ sections.project_count >= 2
  /\ Len(ExtractedProjects) > sections.project_count
  /\ LET distinct == FirstSeen(ExtractedProjects)
     IN  sections.average_project_quality
           # Quotient(SumSeq([i \in 1..Len(distinct) |-> ProjectQuality[distinct[i]]]),
                      Len(distinct))

\* C22 as stated: project_count counts all the extracted project lines, and
\* average_project_quality is the mean over the same lines.
C22_CountsAllLines ==
  (pc.parser = "done" /\ sections # EmptyDict) =>
    /\ sections.project_count = Len(ExtractedProjects)
    /\ sections.average_project_quality =
         IF ExtractedProjects = <<>> THEN Quotient(0, 1)
         ELSE Quotient(SumSeq([i \in 1..Len(ExtractedProjects) |->
                                 ProjectQuality[ExtractedProjects[i]]]),
                       Len(ExtractedProjects))

\* target_role, lower-cased and with its spaces replaced by underscores, is a
\* key of the catalog
NamesCatalogRole(target) == target # None /\ RoleKey[target] \in DOMAIN ATS_KEYWORDS

\* ------------------------------------------------------------------------
\* C23: in Technical Skills scoring exactly one bonus is applied: the role
\* specific bonus when target_role, lower-cased with spaces replaced by
\* underscores, is a catalog key, and otherwise the generic bonus, which is
\* at most 12 + 8; the two are never added together.
\* ------------------------------------------------------------------------
C23_OneBonus ==
  (pc.scorer = "done" /\ score_result # Raised("AttributeError")) =>
    LET technical == score_result[3].technical_skills
        base == BaseScore(sections)
        diversity == _assess_skill_diversity(Get(sections, "skill_categories", EmptyDict))
        generic == _calculate_general_tech_score(text)
        bonus == IF NamesCatalogRole(target_role)
                 THEN _calculate_role_specific_score(text, ATS_KEYWORDS[RoleKey[target_role]],
                                                     target_role)
                 ELSE generic
    IN  /\ generic.score <= Pts(12) + Pts(8)
        /\ technical.score = Min2(base.score + bonus.score + diversity.score, Pts(30))
        /\ technical.details = base.details \o bonus.details \o diversity.details

\* a target_role given by name, a text that earns both bonuses, and a score
\* below the cap that holds the role specific one only
C23_Witness ==
  /\ pc.scorer = "done"
  /\ score_result # Raised("AttributeError")
  /\ target_role = "Data Scientist"
  /\ _calculate_general_tech_score(text).score > 0
  /\ _calculate_role_specific_score(text, ATS_KEYWORDS["data_scientist"], target_role).score > 0
  /\ _calculate_role_specific_score(text, ATS_KEYWORDS["data_scientist"], target_role).score
       # _calculate_general_tech_score(text).score
  /\ score_result[3].technical_skills.score < Pts(30)

\* the roles of the first three suggestions that satisfy Keep, in their order
TopThreeRoles(Keep(_)) ==
  LET kept == SelectSeq(Prefix(job_result.role_suggestions, 3), Keep)
  IN  [i \in 1..Len(kept) |-> kept[i].role]

\* ------------------------------------------------------------------------
\* C24: in the market analysis of the top three suggestions,
\* emerging_opportunities holds exactly the roles whose name contains "AI"
\* or "Data", so the AI Engineer and Data Scientist roles are listed as
\* emerging whenever they rank in the top three; high_compatibility_roles
\* holds exactly those with compatibility >= 60%.
\* ------------------------------------------------------------------------
C24_EmergingRoles ==
  (pc.matcher = "done" /\ job_result # Raised("AttributeError")) =>
    LET buckets == job_result.market_insights.market_opportunities
    IN  /\ buckets.emerging_opportunities
             = TopThreeRoles(LAMBDA s : s.role \in {RoleName["ai_engineer"],
                                                    RoleName["data_scientist"]})
        /\ buckets.high_compatibility_roles
             = TopThreeRoles(LAMBDA s : s.compatibility_float >= 600)

\* 1 for True and 0 for False
Bit(b) == IF b THEN 1 ELSE 0

C26_ExperienceBelowClamp ==
  (pc.scorer = "done" /\ score_result # Raised("AttributeError")) =>
    /\ score_result[3].experience_quality.score <= Pts(23)
    /\ score_result[3].experience_quality.max = Pts(25)
    /\ score_result[1] <= Pts(98)
    /\ score_result[2] = Pts(100)

\* an internship and five years or more: every other indicator at its
\* maximum, the score is 23 and the total is 98
C26_Witness ==
  /\ pc.scorer = "done"
  /\ sections.has_internship
  /\ sections.experience_years >= 5
  /\ score_result[3].experience_quality.score = Pts(23)
  /\ score_result[1] = Pts(98)

\* ------------------------------------------------------------------------
\* C27: with the six achievement patterns and the order of the classifier,
\* no match is ever placed in time_improvements or quality_metrics (a match
\* that holds a time or a quality word, such as 'accuracy of N%', holds a
\* performance word too and goes to performance_metrics), so
\* achievement_diversity never exceeds 3.
\* ------------------------------------------------------------------------
C27_ThreeCategoriesAtMost ==
  (pc.parser = "done" /\ sections # EmptyDict) =>
    LET lists == sections.achievement_categories
        matches == FindAll(AchievementMatches, 6, text)
    IN  /\ lists.time_improvements = <<>>
        /\ lists.quality_metrics = <<>>
        /\ \A i \in 1..Len(matches) :
             TriggersInLower[matches[i]] \cap (TimeWords \cup QualityWords) # {}
               => matches[i] \in Range(lists.performance_metrics)
        /\ sections.achievement_diversity <= 3

\* a match that holds a time word and one that holds a quality word, both
\* in performance_metrics
C27_Witness ==
  /\ pc.parser = "done"
  /\ sections # EmptyDict
  /\ \E m \in Range(sections.achievement_categories.performance_metrics) :
       TriggersInLower[m] \cap TimeWords # {}
  /\ \E m \in Range(sections.achievement_categories.performance_metrics) :
       TriggersInLower[m] \cap QualityWords # {}
  /\ sections.achievement_diversity = 1

\* the indicators of a fact model and a target role, each with the titles
\* of the strengths and of the weaknesses that report it
Indicators(facts, target) ==
  LET n(field) == ToString(Get(facts, field, 0))
  IN  <<[strengths |-> {"Complete Professional Contact Information"},
         weaknesses |-> {"Missing Professional Email Address",
                         "Missing Phone Number Contact Information"}],
        [strengths |-> {"Extensive Technical Skill Portfolio (" \o n("skills_count") \o " skills)",
                        "Strong Technical Foundation (" \o n("skills_count") \o " skills)"},
         weaknesses |-> {"Limited Technical Skills Documentation (" \o n("skills_count")
                         \o " skills listed)"}],
        [strengths |-> {"Advanced Technical Communication and Depth",
                        "Good Technical Understanding and Communication"},
         weaknesses |-> {"Limited Technical Depth and Sophistication"}],
        [strengths |-> IF target = None THEN {}
                       ELSE {"Strong " \o target \o " Technical Alignment"},
         weaknesses |-> IF target = None THEN {}
                        ELSE {"Missing Critical " \o target \o " Technical Skills"}],
        [strengths |-> {"Extensive Professional Experience (" \o n("experience_years") \o " years)",
                        "Solid Professional Background (" \o n("experience_years") \o " years)",
                        "Relevant Professional Experience (" \o n("experience_years") \o " years)"},
         weaknesses |-> {"No Documented Professional Work Experience"}],
        [strengths |-> {"Exceptionally Well-Crafted Experience Descriptions",
                        "Well-Structured Professional Experience"},
         weaknesses |-> {"Poor Quality Experience Descriptions"}],
        [strengths |-> {"Exceptional Quantified Impact Documentation ("
                        \o n("quantified_achievements") \o " metrics)",
                        "Good Results-Oriented Approach (" \o n("quantified_achievements")
                        \o " quantified achievements)"},
         weaknesses |-> {"No Quantified Achievements or Impact Metrics",
                         "Insufficient Quantified Achievement Documentation"}],
        [strengths |-> {"Optimal Resume Length and Detail (" \o n("word_count") \o " words)"},
         weaknesses |-> {"Resume Too Brief (" \o n("word_count") \o " words)",
                         "Resume Excessively Long (" \o n("word_count") \o " words)"}],
        [strengths |-> {"Dynamic Professional Language (" \o n("action_verb_count")
                        \o " action verbs)"},
         weaknesses |-> {"Limited Action Verb Usage (" \o n("action_verb_count")
                         \o " action verbs)"}]>>

\* the indicators that the strengths report
ReportedStrong(strengths, indicators) ==
  {i \in DOMAIN indicators :
     \E k \in 1..Len(strengths) : strengths[k].strength \in indicators[i].strengths}

\* the indicators that the weaknesses report
ReportedWeak(weaknesses, indicators) ==
  {i \in DOMAIN indicators :
     \E k \in 1..Len(weaknesses) : weaknesses[k].weakness \in indicators[i].weaknesses}

\* C28: no indicator is reported by a strength and by a weakness of one
\* analysis: for every fact model, text and target role, contact
\* completeness, skills_count, technical_depth_score, the core skills of the
\* role, experience_years, experience_quality, quantified_achievements,
\* word_count and action_verb_count are each reported strong, or weak, or
\* not at all.
C28_StrengthOrWeakness ==
  pc.analyzer = "done" =>
    ReportedStrong(analysis_result[1], Indicators(sections, target_role))
      \cap ReportedWeak(analysis_result[2], Indicators(sections, target_role)) = {}

\* analyzed for software_developer a text with six of its eight core
\* skills, two of the first six missing: the role is reported strong, and
\* three indicators or more are reported weak
C28_Witness ==
  /\ pc.analyzer = "done"
  /\ target_role = "software_developer"
  /\ Len(Missing(Prefix(ATS_KEYWORDS["software_developer"].core_skills, 6), text)) = 2
  /\ 4 \in ReportedStrong(analysis_result[1], Indicators(sections, target_role))
  /\ Cardinality(ReportedWeak(analysis_result[2], Indicators(sections, target_role))) >= 3

Place(role_key) ==
  LET at == {i \in 1..Len(job_result.role_suggestions) :
               job_result.role_suggestions[i].role = RoleName[role_key]}
  IN  IF at = {} THEN 0 ELSE CHOOSE i \in at : TRUE

\* the compatibility percentages of the roles, in the order of the catalog
Percentages ==
  LET compatibility == _calculate_role_compatibility(text, ats_keywords)
  IN  SelectSeq([a \in 1..Len(RoleOrder) |-> compatibility[RoleOrder[a]].score],
                LAMBDA score : TRUE)

\* two percentages are equal
Equal(a, b) == ~Below(a, b) /\ ~Below(b, a)

\* the first place in the catalog among the roles with the highest percentage
FirstOfHighest(percentages) ==
  LET highest == {a \in 1..Len(percentages) :
                    \A b \in 1..Len(percentages) : ~Below(percentages[a], percentages[b])}
  IN  CHOOSE a \in highest : \A b \in highest : a <= b

\* C30: two roles of equal compatibility percentage are in role_suggestions
\* in the order of the catalog; the first suggestion, which the roadmap
\* recommends and the salary estimate is made for, is the first role of the
\* catalog among those with the highest percentage, and for a text that
\* matches no keyword it is software_developer.
C30_TiesInCatalogOrder ==
  pc.matcher = "done" =>
    LET percentages == Percentages
        suggestions == job_result.role_suggestions
        top == FirstOfHighest(percentages)
    IN  /\ \A a, b \in 1..Len(RoleOrder) :
             (a < b /\ Equal(percentages[a], percentages[b]))
             => Place(RoleOrder[a]) < Place(RoleOrder[b])
        /\ suggestions[1].role = RoleName[RoleOrder[top]]
        /\ job_result.career_roadmap.recommended_target
             = RoleName[RoleOrder[top]] \o " (" \o _assess_role_fit(percentages[top]).level \o ")"
        /\ job_result.market_insights.salary_expectations.current_level_range
             = _estimate_salary_range(Get(sections, "experience_years", 0),
                                      Tenths(percentages[top]))
        /\ (\A a \in 1..Len(RoleOrder) : percentages[a].total = 0)
             => suggestions[1].role = "Software Developer"

\* matched a text with a keyword that two later roles of the catalog have in
\* equal percentage, above the first role: the earlier of the two is the
\* top role and the later one follows it
C30_Witness ==
  /\ pc.matcher = "done"
  /\ LET percentages == Percentages
     IN  \E a, b \in 2..Len(RoleOrder) :
           /\ a < b
           /\ FirstOfHighest(percentages) = a
           /\ percentages[a].total > 0
           /\ Equal(percentages[a], percentages[b])
           /\ job_result.role_suggestions[1].role = RoleName[RoleOrder[a]]
           /\ job_result.role_suggestions[2].role = RoleName[RoleOrder[b]]

====
